---- MODULE Spec2Model ----
(***************************************************************************)
(* Worker runtime of the brand-mention pipeline (src/worker/src/worker):   *)
(* the worker service (start, stop, heartbeat loop, processing loop,       *)
(* handle_payload, failure routing), the store client's list and key       *)
(* operations, the bounded-concurrency LLM executor and the spike-history  *)
(* append.                                                                 *)
(*                                                                         *)
(* A coroutine is modelled by its position (the await it is suspended at); *)
(* one action is the code that runs between two awaits.  A store call      *)
(* either takes effect and returns, or raises RedisError without effect.   *)
(***************************************************************************)
EXTENDS Integers, Sequences, FiniteSets, TLC

VARIABLES
    settings,       \* config.Settings: the fields the model reads
    lists,          \* the store's lists, by key (input, result and failure queues)
    hbkey,          \* workers:heartbeat:<worker_id>: the last SET's value and ex
    svc,            \* WorkerService lifecycle position, per worker
    stop_event,     \* WorkerService._stop_event
    tasks,          \* WorkerService._tasks
    redis_open,     \* whether RedisClient.close() has not been called
    hbpc,           \* position of the heartbeat task
    ppc,            \* position of the processing task
    cancel_req,     \* tasks with a pending cancellation (Task.cancel() called)
    cur,            \* locals of the processing task (fetch result, retry attempt, failure)
    chunks_failed,  \* worker_chunks_failed_total{worker, brand, reason}
    chunks_done,    \* worker_chunks_processed_total{worker, brand}
    popped,         \* history: ids returned by fetch() to each worker, in order
    finished,       \* history: ids whose handle_payload has ended, in order, per worker
    hist,           \* history per payload id: failure detected, how handling ended
    procs,          \* history: number of process_chunk invocations per payload id
    llm_settings,   \* config.Settings: gemini_api_key, llm_max_concurrency, llm_min_delay_sec
    executor,       \* llm_executor module state: clients created, semaphore value
    rc,             \* position of each _run_chain caller
    rc_thread,      \* the executor thread of each caller's current call
    orphans,        \* executor threads still in chain.invoke whose caller has left
    rc_calls,       \* history: number of _run_chain calls each caller has made
    spike_ttl_sec,  \* config.Settings.spike_history_ttl_sec
    spike_list,     \* the store's spike-history lists, by (brand, cluster_id)
    spike_ttl,      \* remaining TTL of each spike-history key
    spike_lock,     \* RedisClient._lock of each worker process: its holder
    ap,             \* position and arguments of each append_spike_history call
    spike_last,     \* history: value and age of the last append that took effect, by key
    n_appends,      \* history: number of append_spike_history calls made
    adapter,        \* LangChainLLMAdapter: kinds of _primary and _fallback, _timeout,
                    \* the labels _brand and _chunk_id, the labels saved by the open
                    \* context() scopes; history: the labels each open scope was
                    \* entered with, how the last scope was left
    ad,             \* the adapter call under way: position, invocations made, outcome
    ad_calls,       \* history: number of summarize / sentiment calls made
    psettings,      \* config.Settings.preprocessing_examples
    penv,           \* what the processor's collaborators do in this run: the fetch
                    \* time, the durations of steps, the LLM's summaries and responses,
                    \* whether a call of the spike store can fail
    pchunk,         \* the Chunk given to process_chunk
    pr,             \* process_chunk / handle_payload locals: position, clock, mentions,
                    \* groupings, clusters, metrics, the ChunkResult, its serialization
    presults,       \* the result queue of the chunk's brand
    pfailures,      \* the failure queue of the chunk's brand
    pspike,         \* the spike lists of the chunk's brand in the store, by cluster_id
    hbt,            \* per worker, the heartbeat loop's clock in seconds: since the last
                    \* write attempt began, in the write in flight, in the wait; the
                    \* attempts made and those that met a store error
    fresult,        \* the ChunkResult given to _format_for_orchestrator
    fpayload,       \* the payload _format_for_orchestrator returned, None before
    qc              \* QueueConsumer: _waiting_since, _last_wait_log, the waiting gauge,
                    \* the clock time.perf_counter reads, the log interval; history:
                    \* the outcome of the last fetch(), when the waiting log was last
                    \* emitted

workerVars == <<settings, lists, hbkey, svc, stop_event, tasks, redis_open, hbpc, ppc,
                cancel_req, cur, chunks_failed, chunks_done, popped, finished, hist, procs>>

llmVars == <<llm_settings, executor, rc, rc_thread, orphans, rc_calls>>

spikeVars == <<spike_ttl_sec, spike_list, spike_ttl, spike_lock, ap, spike_last, n_appends>>

adapterVars == <<adapter, ad, ad_calls>>

processorVars == <<psettings, penv, pchunk, pr, presults, pfailures, pspike>>

clockVars == <<hbt>>

formatVars == <<fresult, fpayload>>

consumerVars == <<qc>>

vars == <<workerVars, llmVars, spikeVars, adapterVars, processorVars, clockVars,
          formatVars, consumerVars>>

(* what each component leaves alone: the other components, and the clock that only
   the timed heartbeat steps advance *)
notWorker == <<llmVars, spikeVars, adapterVars, processorVars, clockVars,
    formatVars, consumerVars>>
notLlm == <<workerVars, spikeVars, adapterVars, processorVars, clockVars,
    formatVars, consumerVars>>
notSpike == <<workerVars, llmVars, adapterVars, processorVars, clockVars,
    formatVars, consumerVars>>
notAdapter == <<workerVars, llmVars, spikeVars, processorVars, clockVars,
    formatVars, consumerVars>>
notProcessor == <<workerVars, llmVars, spikeVars, adapterVars, clockVars,
    formatVars, consumerVars>>

(***************************************************************************)
(* Bounds of the model.                                                    *)
(***************************************************************************)
MaxPayloads == 1
MaxSeqPayloads == 2
MaxInterval == 6
MaxRetries == 1

Workers == {"w1", "w2"}
Brands == {"acme", "globex"}
TaskNames == {"heartbeat", "processing"}
Reasons == {"json_decode", "validation", "processing"}

None == [none |-> TRUE]

Max(a, b) == IF a >= b THEN a ELSE b

PayloadIds == 1 .. Max(MaxPayloads, MaxSeqPayloads)

(***************************************************************************)
(* JSON values as the code sees them: a typed scalar or a missing key.     *)
(***************************************************************************)
Str(s) == [t |-> "str", v |-> s]
Num(s) == [t |-> "int", v |-> s]
Missing == [t |-> "missing", v |-> ""]

(* Raw payload texts put on the input queues. *)
PayloadTexts ==
    { "{not json",
      "[1]",
      "{brand:acme,mentions:[]}",
      "{chunkId:c7}",
      "{chunkId:7}",
      "{brand:acme,chunkId:c1,createdAt:t,mentions:[]}",
      "{brand:,chunkId:c2,createdAt:t,mentions:[]}" }

FleetTexts == {"{not json", "{brand:acme,chunkId:c1,createdAt:t,mentions:[]}"}

(* utils.safe_json_loads: the decoded value, or ValueError. *)
safe_json_loads(text) ==
    CASE text = "{not json" -> [ok |-> FALSE]
      [] text = "[1]" ->
            [ok |-> TRUE, isDict |-> FALSE, brand |-> Missing, chunkId |-> Missing,
             rest |-> FALSE]
      [] text = "{brand:acme,mentions:[]}" ->
            [ok |-> TRUE, isDict |-> TRUE, brand |-> Str("acme"), chunkId |-> Missing,
             rest |-> FALSE]
      [] text = "{chunkId:c7}" ->
            [ok |-> TRUE, isDict |-> TRUE, brand |-> Missing, chunkId |-> Str("c7"),
             rest |-> FALSE]
      [] text = "{chunkId:7}" ->
            [ok |-> TRUE, isDict |-> TRUE, brand |-> Missing, chunkId |-> Num("7"),
             rest |-> FALSE]
      [] text = "{brand:acme,chunkId:c1,createdAt:t,mentions:[]}" ->
            [ok |-> TRUE, isDict |-> TRUE, brand |-> Str("acme"), chunkId |-> Str("c1"),
             rest |-> TRUE]
      [] text = "{brand:,chunkId:c2,createdAt:t,mentions:[]}" ->
            [ok |-> TRUE, isDict |-> TRUE, brand |-> Str(""), chunkId |-> Str("c2"),
             rest |-> TRUE]

(* types.Chunk.model_validate: brand and chunkId are strings, the rest is well formed. *)
ChunkValid(raw) ==
    /\ raw.isDict
    /\ raw.brand.t = "str"
    /\ raw.chunkId.t = "str"
    /\ raw.rest

(* types.FailureRecord: chunk_id must be a string (no coercion from int or null). *)
FailureRecordValid(chunk_id) == chunk_id.t = "str"

(***************************************************************************)
(* Keys.  A key is the tuple of its colon-separated parts.                 *)
(***************************************************************************)
QueuePrefixes == {<<"q">>, <<"svc", "q">>}
QueueKey(prefix, b) == prefix \o <<b, "chunks">>
ResultKey(b) == <<"r", b, "chunks">>
FailedKey(b) == <<"f", b>>
BrandOrder == <<"acme", "globex">>
(* what a brand label can be: a brand, or a part of a queue key taken for one *)
BrandLabels == Brands \cup {"chunks", "unknown"}
Keys == {QueueKey(p, b) : p \in QueuePrefixes, b \in Brands}
            \cup {ResultKey(b) : b \in BrandLabels}
            \cup {FailedKey(b) : b \in BrandLabels}

(* queue_consumer.extract_brand_from_queue *)
extract_brand_from_queue(queue_key) ==
    IF Len(queue_key) >= 3 THEN queue_key[3] ELSE "unknown"

heartbeat_ttl_double(interval) == interval * 2

(* redis_client.RedisClient.set_heartbeat: the TTL given to SET *)
heartbeat_ttl(interval) == Max(interval * 2, interval + 5)

(***************************************************************************)
(* Store client (redis_client.RedisClient).                                *)
(***************************************************************************)
RECURSIVE ExistingKeys(_, _, _, _)
ExistingKeys(ls, prefix, order, i) ==
    IF i > Len(order) THEN <<>>
    ELSE (IF ls[QueueKey(prefix, order[i])] # <<>>
          THEN <<QueueKey(prefix, order[i])>> ELSE <<>>)
            \o ExistingKeys(ls, prefix, order, i + 1)

(* scan_brand_queues: the sorted keys matching <queue_prefix>:*:chunks; a store
   error during the cursor loop leaves the keys gathered so far. *)
scan_brand_queues(ls, prefix) ==
    LET full == ExistingKeys(ls, prefix, BrandOrder, 1)
    IN  {SubSeq(full, 1, k) : k \in 0 .. Len(full)}

RECURSIVE FirstNonEmpty(_, _, _)
FirstNonEmpty(ls, keys, i) ==
    IF i > Len(keys) THEN 0
    ELSE IF ls[keys[i]] # <<>> THEN i
    ELSE FirstNonEmpty(ls, keys, i + 1)

blpop_peek(ls, keys) ==
    LET i == FirstNonEmpty(ls, keys, 1)
    IN  IF i = 0 THEN [found |-> FALSE, lists |-> ls]
        ELSE [found |-> TRUE, key |-> keys[i], value |-> Head(ls[keys[i]]), lists |-> ls]

(* blpop: the head of the first non-empty list among keys is removed and returned
   with its key; none when the timeout elapses with every list empty. *)
blpop(ls, keys) ==
    LET i == FirstNonEmpty(ls, keys, 1)
    IN  IF i = 0 THEN [found |-> FALSE, lists |-> ls]
        ELSE [found |-> TRUE, key |-> keys[i], value |-> Head(ls[keys[i]]),
              lists |-> [ls EXCEPT ![keys[i]] = Tail(@)]]

rpush_twice(ls, key, value) == [ls EXCEPT ![key] = Append(Append(@, value), value)]

(* rpush / record_failure: one attempt that took effect *)
rpush(ls, key, value) == [ls EXCEPT ![key] = Append(@, value)]

(* utils.with_retry: whether a failed attempt is followed by another one *)
with_retry_again(attempt, retries) == attempt < retries

(***************************************************************************)
(* Worker service (app.WorkerService).                                     *)
(***************************************************************************)
NoCur == [keys |-> <<>>, item |-> None, brand |-> "", chunk_id |-> "", attempt |-> 0,
          failure |-> None, label |-> ""]

TaskEnded(pc) == pc \in {"done", "cancelled", "ended_on_error"}

Pc(w, t) == IF t = "heartbeat" THEN hbpc[w] ELSE ppc[w]

runnable_with_processing(w, t) == t \notin cancel_req[w] /\ ppc[w] # "ended_on_error"

Runnable(w, t) == t \notin cancel_req[w]

processing_loop_skip(found) == "continue"

(* _processing_loop, lines 110-114: what follows a fetch result *)
processing_loop_dispatch(found) == IF found THEN "handle" ELSE "continue"

(* _processing_loop, line 109: the loop condition, evaluated when an iteration ends *)
processing_loop_top(w) == IF stop_event[w] THEN "done" ELSE "scan"

(* _record_failure, lines 164-172, up to the await of storage.record_failure:
   builds the FailureRecord; a chunk_id that is no string raises there. *)
record_failure_begin(w, brand, reason_key, message, item, chunk_id) ==
    IF FailureRecordValid(chunk_id)
    THEN [pc |-> "recfail", failedAt |-> reason_key,
          cur |-> [NoCur EXCEPT !.item = item, !.brand = brand, !.chunk_id = chunk_id.v,
                     !.label = reason_key,
                     !.failure = [worker_id |-> w, brand |-> brand,
                                  chunk_id |-> chunk_id.v, reason |-> message,
                                  payload |-> item]]]
    ELSE [pc |-> "raise", failedAt |-> reason_key, cur |-> NoCur]

(* _handle_payload, line 131 *)
validation_chunk_id(raw) ==
    IF raw.isDict
    THEN (IF raw.chunkId.t = "missing" THEN Str("unknown") ELSE raw.chunkId)
    ELSE Str("unknown")

chunk_brand_hint_only(brand, brand_hint) == brand_hint

(* _handle_payload, line 135: chunk.brand or brand_hint *)
chunk_brand(brand, brand_hint) == IF brand # "" THEN brand ELSE brand_hint

(* _handle_payload, lines 121-137, up to the await of process_chunk *)
handle_payload_begin(w, queue_key, item) ==
    LET brand_hint == extract_brand_from_queue(queue_key)
        raw == safe_json_loads(item.text)
    IN  IF ~raw.ok
        THEN record_failure_begin(w, brand_hint, "json_decode", "Invalid JSON", item,
                                  Str("unknown"))
        ELSE IF ~ChunkValid(raw)
        THEN record_failure_begin(w, brand_hint, "validation", "Validation failed", item,
                                  validation_chunk_id(raw))
        ELSE [pc |-> "process", failedAt |-> "none",
              cur |-> [NoCur EXCEPT !.item = item, !.chunk_id = raw.chunkId.v,
                         !.brand = chunk_brand(raw.brand.v, brand_hint)]]

(* handle_payload has ended for worker w's current item, in the way `how` *)
EndHandling(w, how) ==
    /\ hist' = [hist EXCEPT ![cur[w].item.id].exit = how]
    /\ finished' = [finished EXCEPT ![w] = Append(@, cur[w].item.id)]
    /\ cur' = [cur EXCEPT ![w] = NoCur]
    /\ ppc' = [ppc EXCEPT ![w] =
                 IF how = "returned" THEN processing_loop_top(w)
                 ELSE IF how = "raised" THEN "ended_on_error" ELSE "cancelled"]

(***************************************************************************)
(* Actions of the worker service.                                          *)
(***************************************************************************)
svcFrame == <<svc, stop_event, tasks, redis_open, cancel_req>>
procFrame == <<ppc, cur, popped, finished, hist, procs>>
counters == <<chunks_failed, chunks_done>>

(* ensure_connection, lines 31-38: ping under with_retry, when the store fails the
   first `fails` pings: the probe returns, or the last retry's exception is raised *)
RECURSIVE ensure_connection(_, _, _)
ensure_connection(fails, attempt, retries) ==
    IF fails = 0 THEN "ok"
    ELSE IF with_retry_again(attempt, retries)
    THEN ensure_connection(fails - 1, attempt + 1, retries)
    ELSE "raised"

spawn_tasks_always(probe) == TaskNames

(* start(), lines 66-71: the tasks are created after the await of ensure_connection
   has returned; its exception leaves start() before them *)
spawn_tasks(probe) == IF probe = "ok" THEN TaskNames ELSE {}

(* start(), lines 65-71, with the store failing the first `fails` pings: the
   connection probe, then the two tasks.  Each task is created suspended at its first
   await. *)
StartWith(w, fails) ==
    /\ UNCHANGED notWorker
    /\ svc[w] = "new"
    /\ LET probe == ensure_connection(fails, 0, settings.max_retries)
           spawned == spawn_tasks(probe) IN
       /\ svc' = [svc EXCEPT ![w] = IF probe = "ok" THEN "running" ELSE "failed"]
       /\ stop_event' = [stop_event EXCEPT ![w] = IF probe = "ok" THEN FALSE ELSE @]
       /\ tasks' = [tasks EXCEPT ![w] = spawned]
       /\ hbpc' = [hbpc EXCEPT ![w] = IF "heartbeat" \in spawned THEN "set" ELSE @]
       /\ ppc' = [ppc EXCEPT ![w] = IF "processing" \in spawned THEN "scan" ELSE @]
    /\ UNCHANGED <<settings, lists, hbkey, redis_open, cancel_req, cur, counters,
                   popped, finished, hist, procs>>

Start(w) == \E fails \in 0 .. settings.max_retries + 1 : StartWith(w, fails)

(* stop(), lines 80-83: set the stop signal, cancel every task, then wait in gather *)
StopBegin(w) ==
    /\ UNCHANGED notWorker
    /\ svc[w] \in {"running", "stopped"}
    /\ svc' = [svc EXCEPT ![w] = "stopping"]
    /\ stop_event' = [stop_event EXCEPT ![w] = TRUE]
    /\ cancel_req' = [cancel_req EXCEPT ![w] =
                        @ \cup {t \in tasks[w] : ~TaskEnded(Pc(w, t))}]
    /\ UNCHANGED <<settings, lists, hbkey, tasks, redis_open, hbpc, counters>>
    /\ UNCHANGED procFrame

gather_no_wait(w) == TRUE

(* stop(), line 83: gather over the tasks, with return_exceptions, is done *)
gather_done(w) == \A t \in tasks[w] : TaskEnded(Pc(w, t))

(* stop(), lines 83-85: gather returns once every task has ended *)
StopEnd(w) ==
    /\ UNCHANGED notWorker
    /\ svc[w] = "stopping"
    /\ gather_done(w)
    /\ tasks' = [tasks EXCEPT ![w] = {}]
    /\ redis_open' = [redis_open EXCEPT ![w] = FALSE]
    /\ svc' = [svc EXCEPT ![w] = "stopped"]
    /\ UNCHANGED <<settings, lists, hbkey, stop_event, hbpc, cancel_req, counters>>
    /\ UNCHANGED procFrame

(* _heartbeat_loop, lines 102-103, _processing_loop, lines 115-116, and
   _handle_payload, line 144: CancelledError is raised at the await the task is
   suspended at; `except Exception` does not catch it and both loops re-raise it *)
task_cancelled(w, t) ==
    /\ t \in cancel_req[w]
    /\ cancel_req' = [cancel_req EXCEPT ![w] = @ \ {t}]
    /\ IF t = "heartbeat"
       THEN /\ hbpc' = [hbpc EXCEPT ![w] = "cancelled"]
            /\ UNCHANGED procFrame
       ELSE /\ UNCHANGED hbpc
            /\ IF cur[w].item # None
               THEN EndHandling(w, "cancelled") /\ UNCHANGED <<popped, procs>>
               ELSE /\ ppc' = [ppc EXCEPT ![w] = "cancelled"]
                    /\ cur' = [cur EXCEPT ![w] = NoCur]
                    /\ UNCHANGED <<popped, finished, hist, procs>>
    /\ UNCHANGED <<settings, lists, hbkey, svc, stop_event, tasks, redis_open, counters>>

(* a task of worker w is cancelled while no LLM call of the worker is in flight *)
TaskCancelled(w, t) ==
    /\ UNCHANGED notWorker
    /\ task_cancelled(w, t)

(* _heartbeat_loop, line 97, and set_heartbeat, lines 64-69: the write returns; a
   RedisError is logged, not raised *)
hb_set(w, ok) ==
    /\ hbpc[w] = "set"
    /\ Runnable(w, "heartbeat")
    /\ hbkey' = IF ok
                THEN [hbkey EXCEPT ![w] =
                        [value |-> "alive",
                         ex |-> heartbeat_ttl(Max(settings.heartbeat_interval_sec, 1))]]
                ELSE hbkey
    /\ hbpc' = [hbpc EXCEPT ![w] = "wait"]
    /\ UNCHANGED <<settings, lists, counters>>
    /\ UNCHANGED svcFrame
    /\ UNCHANGED procFrame

HbSet(w) ==
    /\ UNCHANGED notWorker
    /\ \E ok \in BOOLEAN : hb_set(w, ok)

(* _heartbeat_loop, lines 96-101: the wait ends, the loop condition is read again *)
hb_wake(w) ==
    /\ hbpc[w] = "wait"
    /\ Runnable(w, "heartbeat")
    /\ hbpc' = [hbpc EXCEPT ![w] = IF stop_event[w] THEN "done" ELSE "set"]
    /\ UNCHANGED <<settings, lists, hbkey, counters>>
    /\ UNCHANGED svcFrame
    /\ UNCHANGED procFrame

HbWake(w) ==
    /\ UNCHANGED notWorker
    /\ hb_wake(w)

(***************************************************************************)
(* The heartbeat loop under a clock of seconds.  A write of the store takes *)
(* up to MaxWriteSec seconds; a pending cancellation is delivered before    *)
(* the next second passes.                                                  *)
(***************************************************************************)
MaxWriteSec == 1
MaxBeats == 3
GapCap == 2 * MaxInterval

NoBeat == [gap |-> 0, writing |-> 0, waited |-> 0, beats |-> 0, errors |-> 0]

wait_timeout_double(interval) == interval * 2

(* _heartbeat_loop, line 99: the timeout of the wait on the stop signal *)
wait_timeout(interval) == interval

(* _heartbeat_loop, line 94 *)
heartbeat_interval == Max(settings.heartbeat_interval_sec, 1)

notClock == <<llmVars, spikeVars, adapterVars, processorVars, formatVars, consumerVars>>

(* the write of set_heartbeat returns, with or without a store error *)
HbSetTimed(w) ==
    /\ \E ok \in BOOLEAN :
         /\ hb_set(w, ok)
         /\ hbt' = [hbt EXCEPT ![w].waited = 0,
                               ![w].beats = IF @ < MaxBeats THEN @ + 1 ELSE @,
                               ![w].errors = IF ~ok /\ @ < MaxBeats THEN @ + 1 ELSE @]
    /\ UNCHANGED notClock

(* wait_for returns, because the stop signal is set, or times out: when the loop goes
   on the next write attempt begins *)
HbWakeTimed(w) ==
    /\ stop_event[w] \/ hbt[w].waited >= wait_timeout(heartbeat_interval)
    /\ hb_wake(w)
    /\ hbt' = [hbt EXCEPT ![w].gap = 0, ![w].writing = 0, ![w].waited = 0]
    /\ UNCHANGED notClock

(* one second passes for worker w's heartbeat task, suspended in the write or in the
   wait *)
HbTick(w) ==
    /\ hbpc[w] \in {"set", "wait"}
    /\ Runnable(w, "heartbeat")
    /\ hbpc[w] = "set" => hbt[w].writing < MaxWriteSec
    /\ hbpc[w] = "wait" => hbt[w].waited < wait_timeout(heartbeat_interval)
    /\ hbt' = [hbt EXCEPT ![w].gap = IF @ < GapCap THEN @ + 1 ELSE @,
                          ![w].writing = IF hbpc[w] = "set" THEN @ + 1 ELSE @,
                          ![w].waited = IF hbpc[w] = "wait" THEN @ + 1 ELSE @]
    /\ UNCHANGED <<workerVars, notClock>>

(* fetch(), lines 29-36: the scan returns *)
ProcScan(w) ==
    /\ UNCHANGED notWorker
    /\ ppc[w] = "scan"
    /\ Runnable(w, "processing")
    /\ \E keys \in scan_brand_queues(lists, settings.redis_queue_prefix) :
         IF keys = <<>>
         THEN /\ ppc' = [ppc EXCEPT ![w] = "sleep"]
              /\ UNCHANGED cur
         ELSE /\ ppc' = [ppc EXCEPT ![w] = "blpop"]
              /\ cur' = [cur EXCEPT ![w].keys = keys]
    /\ UNCHANGED <<settings, lists, hbkey, counters, popped, finished, hist, procs>>
    /\ UNCHANGED <<svcFrame, hbpc>>

(* fetch() line 31 or blpop() line 52: the sleep ends, fetch returns none *)
ProcSleep(w) ==
    /\ UNCHANGED notWorker
    /\ ppc[w] = "sleep"
    /\ Runnable(w, "processing")
    /\ ppc' = [ppc EXCEPT ![w] = processing_loop_top(w)]
    /\ cur' = [cur EXCEPT ![w] = NoCur]
    /\ UNCHANGED <<settings, lists, hbkey, counters, popped, finished, hist, procs>>
    /\ UNCHANGED <<svcFrame, hbpc>>

blpop_error_raises(w) == "ended_on_error"

(* blpop, lines 50-53: the RedisError is caught and logged, then the sleep *)
blpop_error(w) == "sleep"

(* fetch() lines 36-61, the loop's lines 110-114 and handle_payload up to its first
   await: the block-pop returns *)
ProcBlpop(w) ==
    /\ UNCHANGED notWorker
    /\ ppc[w] = "blpop"
    /\ Runnable(w, "processing")
    /\ \E err \in BOOLEAN :
         LET r == blpop(lists, cur[w].keys) IN
         IF err
         THEN /\ ppc' = [ppc EXCEPT ![w] = blpop_error(w)]
              /\ UNCHANGED <<lists, cur, popped, finished, hist, procs>>
         ELSE IF processing_loop_dispatch(r.found) = "continue"
         THEN /\ ppc' = [ppc EXCEPT ![w] = processing_loop_top(w)]
              /\ cur' = [cur EXCEPT ![w] = NoCur]
              /\ lists' = r.lists
              /\ popped' = IF r.found THEN [popped EXCEPT ![w] = Append(@, r.value.id)]
                           ELSE popped
              /\ UNCHANGED <<finished, hist, procs>>
         ELSE LET h == handle_payload_begin(w, r.key, r.value) IN
              /\ lists' = r.lists
              /\ popped' = [popped EXCEPT ![w] = Append(@, r.value.id)]
              /\ procs' = IF h.pc = "process"
                          THEN [procs EXCEPT ![r.value.id] = @ + 1] ELSE procs
              /\ IF h.pc = "raise"
                 THEN /\ hist' = [hist EXCEPT ![r.value.id] =
                                    [failedAt |-> h.failedAt, exit |-> "raised",
                                     queue |-> r.key]]
                      /\ finished' = [finished EXCEPT ![w] = Append(@, r.value.id)]
                      /\ cur' = [cur EXCEPT ![w] = NoCur]
                      /\ ppc' = [ppc EXCEPT ![w] = "ended_on_error"]
                 ELSE /\ hist' = [hist EXCEPT ![r.value.id].failedAt = h.failedAt,
                                                ![r.value.id].queue = r.key]
                      /\ cur' = [cur EXCEPT ![w] = h.cur]
                      /\ ppc' = [ppc EXCEPT ![w] = h.pc]
                      /\ UNCHANGED finished
    /\ UNCHANGED <<settings, hbkey, counters>>
    /\ UNCHANGED <<svcFrame, hbpc>>

(* _handle_payload, lines 137-138 and 144-152: process_chunk returns a result or
   raises *)
ProcProcess(w) ==
    /\ UNCHANGED notWorker
    /\ ppc[w] = "process"
    /\ Runnable(w, "processing")
    /\ \E ok \in BOOLEAN :
         IF ok
         THEN /\ ppc' = [ppc EXCEPT ![w] = "push"]
              /\ cur' = [cur EXCEPT ![w].attempt = 0]
              /\ UNCHANGED hist
         ELSE LET f == record_failure_begin(w, cur[w].brand, "processing",
                                            "Processing failed", cur[w].item,
                                            Str(cur[w].chunk_id)) IN
              /\ ppc' = [ppc EXCEPT ![w] = f.pc]
              /\ cur' = [cur EXCEPT ![w] = f.cur]
              /\ hist' = [hist EXCEPT ![cur[w].item.id].failedAt = "processing"]
    /\ UNCHANGED <<settings, lists, hbkey, counters, popped, finished, procs>>
    /\ UNCHANGED <<svcFrame, hbpc>>

(* storage.push_result, lines 28-33, and _handle_payload, lines 138-152: one rpush
   attempt under with_retry *)
ProcPush(w) ==
    /\ UNCHANGED notWorker
    /\ ppc[w] = "push"
    /\ Runnable(w, "processing")
    /\ \E ok \in BOOLEAN :
         IF ok
         THEN /\ lists' = rpush(lists, ResultKey(cur[w].brand),
                                [chunkId |-> cur[w].chunk_id, payload |-> cur[w].item])
              /\ chunks_done' = [chunks_done EXCEPT ![w][cur[w].brand] = @ + 1]
              /\ EndHandling(w, "returned")
              /\ UNCHANGED <<chunks_failed, popped, procs>>
         ELSE IF with_retry_again(cur[w].attempt, settings.max_retries)
         THEN /\ cur' = [cur EXCEPT ![w].attempt = @ + 1]
              /\ UNCHANGED <<lists, counters, ppc, popped, finished, hist, procs>>
         ELSE LET f == record_failure_begin(w, cur[w].brand, "processing",
                                            "Processing failed", cur[w].item,
                                            Str(cur[w].chunk_id)) IN
              /\ ppc' = [ppc EXCEPT ![w] = f.pc]
              /\ cur' = [cur EXCEPT ![w] = f.cur]
              /\ hist' = [hist EXCEPT ![cur[w].item.id].failedAt = "processing"]
              /\ UNCHANGED <<lists, counters, popped, finished, procs>>
    /\ UNCHANGED <<settings, hbkey>>
    /\ UNCHANGED <<svcFrame, hbpc>>

(* storage.record_failure, lines 137-142: one rpush attempt under with_retry; when the
   last attempt fails the exception leaves handle_payload and ends the loop *)
ProcRecFail(w) ==
    /\ UNCHANGED notWorker
    /\ ppc[w] = "recfail"
    /\ Runnable(w, "processing")
    /\ \E ok \in BOOLEAN :
         IF ok
         THEN /\ lists' = rpush(lists, FailedKey(cur[w].brand), cur[w].failure)
              /\ chunks_failed' =
                    [chunks_failed EXCEPT ![w][<<cur[w].brand, cur[w].label>>] = @ + 1]
              /\ EndHandling(w, "returned")
              /\ UNCHANGED <<chunks_done, popped, procs>>
         ELSE IF with_retry_again(cur[w].attempt, settings.max_retries)
         THEN /\ cur' = [cur EXCEPT ![w].attempt = @ + 1]
              /\ UNCHANGED <<lists, counters, ppc, popped, finished, hist, procs>>
         ELSE /\ EndHandling(w, "raised")
              /\ UNCHANGED <<lists, counters, popped, procs>>
    /\ UNCHANGED <<settings, hbkey>>
    /\ UNCHANGED <<svcFrame, hbpc>>

(***************************************************************************)
(* LLM executor (llm_executor): the shared clients, the semaphore and      *)
(* _run_chain.  chain.invoke runs on an executor thread; the caller waits  *)
(* for it under wait_for.                                                  *)
(***************************************************************************)
MaxConcurrency == 2
MaxCalls == 2

Callers == {"c1", "c2", "c3"}

NoClients == [ready |-> FALSE, permits |-> 0, min_delay |-> 0, created |-> 0]

ensure_clients_recreate(ex, st) ==
    IF ~st.gemini_api_key THEN [raised |-> TRUE, executor |-> ex]
    ELSE [raised |-> FALSE,
          executor |-> [ready |-> TRUE, permits |-> st.llm_max_concurrency,
                        min_delay |-> Max(0, st.llm_min_delay_sec),
                        created |-> ex.created + 1]]

(* _ensure_clients, lines 52-82: created on first use; no API key raises.  `created`
   counts the times the clients and the semaphore were constructed. *)
ensure_clients(ex, st) ==
    IF ex.ready THEN [raised |-> FALSE, executor |-> ex]
    ELSE IF ~st.gemini_api_key THEN [raised |-> TRUE, executor |-> ex]
    ELSE [raised |-> FALSE,
          executor |-> [ready |-> TRUE, permits |-> st.llm_max_concurrency,
                        min_delay |-> Max(0, st.llm_min_delay_sec),
                        created |-> ex.created + 1]]

(* the prompt families of lines 110-130 and the direct use of _run_chain *)
Families == {"invoke_prompt_text", "invoke_general", "invoke_roadmap"}

(* line 82: _ensure_clients returns four values; lines 111, 117, 123: each helper
   unpacks them into three targets *)
EnsureClientsReturns == 4
InvokeUnpackTargets == 3

(* tuple unpacking: ValueError unless the counts agree *)
unpack_ok(n_values, n_targets) == n_values = n_targets

(* asyncio.Semaphore as _run_chain uses it (async with, line 88) *)
sem_acquire(ex) == [ex EXCEPT !.permits = @ - 1]

sem_release_lost(ex) == ex

sem_release(ex) == [ex EXCEPT !.permits = @ + 1]

(* executor threads inside chain.invoke *)
InFlight == Cardinality({c \in Callers : rc_thread[c] = "running"}) + orphans

llmFrame == <<notLlm, llm_settings>>

(* _run_chain, lines 86-95: up to the first await.  With a permit free the thread is
   started at once; otherwise the caller waits for a permit. *)
run_chain_begin(c) ==
    LET e == ensure_clients(executor, llm_settings) IN
    IF e.raised
    THEN UNCHANGED <<executor, rc, rc_thread>>
    ELSE IF e.executor.permits > 0
    THEN /\ executor' = sem_acquire(e.executor)
         /\ rc' = [rc EXCEPT ![c] = "calling"]
         /\ rc_thread' = [rc_thread EXCEPT ![c] = "running"]
    ELSE /\ executor' = e.executor
         /\ rc' = [rc EXCEPT ![c] = "waiting"]
         /\ UNCHANGED rc_thread

(* _run_chain called with a chain of the caller's own *)
RcCall(c) ==
    /\ rc[c] = "idle"
    /\ rc_calls[c] < MaxCalls
    /\ rc_calls' = [rc_calls EXCEPT ![c] = @ + 1]
    /\ run_chain_begin(c)
    /\ UNCHANGED <<llmFrame, orphans>>

(* invoke_prompt_text / invoke_general / invoke_roadmap, lines 110-130:
   _ensure_clients, the unpacking of what it returned, then _run_chain *)
InvokeCall(c, family) ==
    /\ rc[c] = "idle"
    /\ rc_calls[c] < MaxCalls
    /\ rc_calls' = [rc_calls EXCEPT ![c] = @ + 1]
    /\ LET e == ensure_clients(executor, llm_settings) IN
       IF e.raised \/ ~unpack_ok(EnsureClientsReturns, InvokeUnpackTargets)
       THEN /\ executor' = e.executor
            /\ UNCHANGED <<rc, rc_thread>>
       ELSE run_chain_begin(c)
    /\ UNCHANGED <<llmFrame, orphans>>

(* line 88: a waiting caller gets a permit, lines 89-95: and starts its thread *)
RcAcquire(c) ==
    /\ rc[c] = "waiting"
    /\ executor.permits > 0
    /\ executor' = sem_acquire(executor)
    /\ rc' = [rc EXCEPT ![c] = "calling"]
    /\ rc_thread' = [rc_thread EXCEPT ![c] = "running"]
    /\ UNCHANGED <<llmFrame, orphans, rc_calls>>

(* lines 91-92: chain.invoke returns or raises on its thread *)
ThreadEnd(c) ==
    /\ rc_thread[c] = "running"
    /\ \E r \in {"returned", "raised"} : rc_thread' = [rc_thread EXCEPT ![c] = r]
    /\ UNCHANGED <<llmFrame, executor, rc, orphans, rc_calls>>

resume_no_delay(thread, min_delay) == "idle"

(* lines 95-98: where the caller goes when wait_for hands it the thread's outcome *)
resume(thread, min_delay) ==
    IF thread = "returned" /\ min_delay > 0 THEN "delay" ELSE "idle"

(* lines 95-98 and 99-107: the caller resumes with the thread's outcome *)
RcResume(c) ==
    /\ rc[c] = "calling"
    /\ rc_thread[c] \in {"returned", "raised"}
    /\ rc_thread' = [rc_thread EXCEPT ![c] = "none"]
    /\ rc' = [rc EXCEPT ![c] = resume(rc_thread[c], executor.min_delay)]
    /\ IF resume(rc_thread[c], executor.min_delay) = "delay"
       THEN UNCHANGED executor
       ELSE executor' = sem_release(executor)
    /\ UNCHANGED <<llmFrame, orphans, rc_calls>>

(* line 95: wait_for times out.  The future is cancelled, the thread is not: it stays
   in chain.invoke; the permit is released on leaving the async with. *)
RcTimeout(c) ==
    /\ rc[c] = "calling"
    /\ rc_thread[c] = "running"
    /\ rc' = [rc EXCEPT ![c] = "idle"]
    /\ rc_thread' = [rc_thread EXCEPT ![c] = "none"]
    /\ orphans' = orphans + 1
    /\ executor' = sem_release(executor)
    /\ UNCHANGED <<llmFrame, rc_calls>>

(* lines 96-98: the min-delay sleep ends, the permit is released, the result returned *)
RcDelayEnd(c) ==
    /\ rc[c] = "delay"
    /\ rc' = [rc EXCEPT ![c] = "idle"]
    /\ executor' = sem_release(executor)
    /\ UNCHANGED <<llmFrame, rc_thread, orphans, rc_calls>>

(* CancelledError at the await the caller is suspended at *)
RcCancelled(c) ==
    /\ rc[c] \in {"waiting", "calling", "delay"}
    /\ rc' = [rc EXCEPT ![c] = "idle"]
    /\ rc_thread' = [rc_thread EXCEPT ![c] = "none"]
    /\ orphans' = IF rc_thread[c] = "running" THEN orphans + 1 ELSE orphans
    /\ executor' = IF rc[c] = "waiting" THEN executor ELSE sem_release(executor)
    /\ UNCHANGED <<llmFrame, rc_calls>>

(* a thread whose caller has left comes out of chain.invoke *)
OrphanEnd ==
    /\ orphans > 0
    /\ orphans' = orphans - 1
    /\ UNCHANGED <<llmFrame, executor, rc, rc_thread, rc_calls>>

(***************************************************************************)
(* Spike history (redis_client.RedisClient.append_spike_history).          *)
(***************************************************************************)
SpikeHistoryMax == 100
SpikeTtlMin == 60
TickSec == 30
MaxAppends == 3

Appenders == {"a1", "a2", "a3"}
ProcessOf(a) == IF a = "a3" THEN "w2" ELSE "w1"

(* _spike_key, lines 115-116 *)
spike_key(brand, cluster_id) == <<"s", brand, cluster_id>>
SpikeKeys == {spike_key("acme", 7), spike_key("acme", 8)}
SpikeValues == {1, 2}

Min(a, b) == IF a <= b THEN a ELSE b

(* LTRIM key start stop, with 0 <= start <= stop *)
ltrim(list, start, stop) == SubSeq(list, start + 1, Min(stop + 1, Len(list)))

append_dropped(list, value) == list

append_no_trim(list, value) == <<value>> \o list

(* append_spike_history, lines 108-109: the list after lpush and ltrim 0 99 *)
append_spike_history(list, value) == ltrim(<<value>> \o list, 0, SpikeHistoryMax - 1)

NoAppend == [pc |-> "idle", key |-> <<>>, value |-> 0]

spikeFrame == <<notSpike, spike_ttl_sec>>

(* lines 104-106: the key, then the process's lock *)
ApCall(a, k, v) ==
    /\ ap[a].pc = "idle"
    /\ n_appends < MaxAppends
    /\ n_appends' = n_appends + 1
    /\ IF spike_lock[ProcessOf(a)] = "free"
       THEN /\ spike_lock' = [spike_lock EXCEPT ![ProcessOf(a)] = a]
            /\ ap' = [ap EXCEPT ![a] = [pc |-> "exec", key |-> k, value |-> v]]
       ELSE /\ ap' = [ap EXCEPT ![a] = [pc |-> "lockwait", key |-> k, value |-> v]]
            /\ UNCHANGED spike_lock
    /\ UNCHANGED <<spikeFrame, spike_list, spike_ttl, spike_last>>

(* line 106: a waiting appender gets the lock *)
ApLock(a) ==
    /\ ap[a].pc = "lockwait"
    /\ spike_lock[ProcessOf(a)] = "free"
    /\ spike_lock' = [spike_lock EXCEPT ![ProcessOf(a)] = a]
    /\ ap' = [ap EXCEPT ![a].pc = "exec"]
    /\ UNCHANGED <<spikeFrame, spike_list, spike_ttl, spike_last, n_appends>>

(* lines 107-113: the pipeline (MULTI/EXEC) is executed as one step by the store, or
   fails with RedisError, which is logged; the lock is released either way *)
ApExec(a) ==
    /\ ap[a].pc = "exec"
    /\ \E ok \in BOOLEAN :
         IF ok
         THEN /\ spike_list' = [spike_list EXCEPT ![ap[a].key] =
                                  append_spike_history(@, ap[a].value)]
              /\ spike_ttl' = [spike_ttl EXCEPT ![ap[a].key] = spike_ttl_sec]
              /\ spike_last' = [spike_last EXCEPT ![ap[a].key] =
                                  [value |-> ap[a].value, age |-> 0]]
         ELSE UNCHANGED <<spike_list, spike_ttl, spike_last>>
    /\ spike_lock' = [spike_lock EXCEPT ![ProcessOf(a)] = "free"]
    /\ ap' = [ap EXCEPT ![a] = NoAppend]
    /\ UNCHANGED <<spikeFrame, n_appends>>

(* TickSec seconds pass: every key's TTL runs down; at 0 the store deletes the key *)
SpikeTick ==
    /\ \E k \in SpikeKeys : spike_list[k] # <<>>
    /\ spike_ttl' = [k \in SpikeKeys |-> Max(spike_ttl[k] - TickSec, 0)]
    /\ spike_list' = [k \in SpikeKeys |->
                        IF spike_ttl[k] - TickSec <= 0 THEN <<>> ELSE spike_list[k]]
    /\ spike_last' = [k \in SpikeKeys |->
                        IF spike_ttl[k] - TickSec <= 0 \/ spike_last[k] = None THEN None
                        ELSE [spike_last[k] EXCEPT !.age = @ + TickSec]]
    /\ UNCHANGED <<spikeFrame, spike_lock, ap, n_appends>>

(***************************************************************************)
(* LLM adapter (llm_adapter.LangChainLLMAdapter): summarize and sentiment. *)
(* Numbers are in hundredths: 33 is 0.33, 100 is 1.0.                      *)
(***************************************************************************)
MaxAdapterCalls == 2
MaxTimeout == 2
MaxDepth == 2

Operations == {"summary", "sentiment"}
SentimentKeys == {"positive", "negative", "neutral"}

(* _build_chat_models, lines 202-239: the primary and the fallback for a provider and
   the API keys present; raised when the provider's own key is missing *)
build_chat_models(provider, gemini_api_key, openai_api_key) ==
    IF provider = "mock"
    THEN [raised |-> FALSE, primary |-> "mock", fallback |-> "none"]
    ELSE IF provider = "gemini"
    THEN (IF ~gemini_api_key THEN [raised |-> TRUE]
          ELSE [raised |-> FALSE, primary |-> "gemini",
                fallback |-> IF openai_api_key THEN "openai" ELSE "mock"])
    ELSE IF provider = "openai"
    THEN (IF ~openai_api_key THEN [raised |-> TRUE]
          ELSE [raised |-> FALSE, primary |-> "openai",
                fallback |-> IF gemini_api_key THEN "gemini" ELSE "mock"])
    ELSE [raised |-> TRUE]

(* what an LLM response can be: a string, or something that is neither a string nor a
   dict (a content list) *)
Text(s) == [t |-> "str", v |-> s]
ContentList == [t |-> "list", v |-> ""]

ResponseTexts ==
    { "not json", "[1]", "3", "\"hi\"", "null", "{}",
      "{positive:0.2,negative:0.3,neutral:0.5}",
      "{positive:0.9}",
      "{positive:2,negative:0,neutral:-1}",
      "{positive:high}" }

Responses == {Text(s) : s \in ResponseTexts} \cup {ContentList}

JNum(n) == [t |-> "num", v |-> n]
JStr(x) == [t |-> "str", v |-> 0]
JObject(f) == [ok |-> TRUE, kind |-> "object", fields |-> f]
JOther(k) == [ok |-> TRUE, kind |-> k, fields |-> <<>>]

(* json.loads as sentiment() calls it, line 125: the value, or JSONDecodeError *)
json_loads(text) ==
    CASE text = "not json" -> [ok |-> FALSE, kind |-> "none", fields |-> <<>>]
      [] text = "[1]" -> JOther("list")
      [] text = "3" -> JOther("number")
      [] text = "\"hi\"" -> JOther("string")
      [] text = "null" -> JOther("null")
      [] text = "{}" -> JObject(<<>>)
      [] text = "{positive:0.2,negative:0.3,neutral:0.5}" ->
            JObject([k \in SentimentKeys |->
                        IF k = "positive" THEN JNum(20)
                        ELSE IF k = "negative" THEN JNum(30) ELSE JNum(50)])
      [] text = "{positive:0.9}" -> JObject([k \in {"positive"} |-> JNum(90)])
      [] text = "{positive:2,negative:0,neutral:-1}" ->
            JObject([k \in SentimentKeys |->
                        IF k = "positive" THEN JNum(200)
                        ELSE IF k = "negative" THEN JNum(0) ELSE JNum(0 - 100)])
      [] text = "{positive:high}" -> JObject([k \in {"positive"} |-> JStr("high")])

DefaultSentiment ==
    [k \in SentimentKeys |-> IF k = "neutral" THEN JNum(34) ELSE JNum(33)]

(* parsed.get(key, default), lines 133-135 *)
dict_get(fields, key, default) == IF key \in DOMAIN fields THEN fields[key] ELSE JNum(default)

(* sentiment(), lines 123-136: from the response of _invoke to the returned dict, or
   the exception raised on the way (.get on a value that is no dict, float() of a value
   that is no number) *)
sentiment_parse(response) ==
    LET parsed ==
            IF response.t = "str"
            THEN (IF json_loads(response.v).ok THEN json_loads(response.v)
                  ELSE JObject(DefaultSentiment))
            ELSE JObject(DefaultSentiment)
        got == [k \in SentimentKeys |->
                   dict_get(parsed.fields, k, IF k = "neutral" THEN 100 ELSE 0)]
    IN  IF parsed.kind # "object" THEN [raised |-> TRUE, value |-> <<>>]
        ELSE IF \E k \in SentimentKeys : got[k].t # "num" THEN [raised |-> TRUE, value |-> <<>>]
        ELSE [raised |-> FALSE, value |-> [k \in SentimentKeys |-> got[k].v]]

(* what invoking a capability can end with.  The executor helpers behind GeminiProxy
   (llm_executor.invoke_general / invoke_prompt_text, lines 110-119) unpack three
   values from the four _ensure_clients returns, or _ensure_clients raises: ValueError
   either way, before anything is awaited. *)
invoke_outcomes(kind) ==
    CASE kind = "gemini" -> {"raised"}
      [] kind = "openai" -> {"ok", "raised", "timeout"}
      [] kind = "mock" -> {"ok"}

(* the responses a capability can give to an operation's prompt *)
invoke_responses(kind, op) ==
    IF kind = "mock"
    THEN {Text("{positive:0.2,negative:0.3,neutral:0.5}")}
    ELSE IF op = "summary" THEN {Text("\"hi\""), Text("{}"), ContentList}
    ELSE Responses

(* __init__, lines 101-102: the labels of a new adapter *)
NoLabels == [brand |-> "unknown", chunk_id |-> "unknown"]

Labels == [brand : Brands, chunk_id : {"c1", "c2"}]

(* context(), lines 106-109: the previous labels are kept by the scope, the new ones
   set *)
context_enter(a, labels) ==
    [a EXCEPT !.labels = labels, !.saved = <<a.labels>> \o a.saved]

context_exit_reset(a) ==
    [a EXCEPT !.labels = NoLabels, !.saved = Tail(a.saved)]

(* context(), lines 112-114: the finally clause of the innermost scope *)
context_exit(a) ==
    [a EXCEPT !.labels = Head(a.saved), !.saved = Tail(a.saved)]

(* worker_llm_latency_seconds.labels(worker, brand, operation).observe, line 164 *)
Observation(brand, op) == [brand |-> brand, operation |-> op]

NoCall == [pc |-> "idle", op |-> "", brand |-> "", calls |-> <<>>, primary |-> "none",
           fallback |-> "none", response |-> None, invoke |-> "none", exit |-> "none",
           value |-> None, observed |-> <<>>, warnings |-> 0]

Invocation(who) == [who |-> who, timeout |-> adapter.timeout]

(* _invoke, lines 164-180, and the rest of summarize / sentiment: the call ends with
   the response *)
invoke_return(a, response) ==
    LET s == sentiment_parse(response) IN
    LET b == [a EXCEPT !.observed = Append(@, Observation(adapter.labels.brand, a.op))] IN
    IF a.op = "summary"
    THEN [b EXCEPT !.pc = "ended", !.response = response, !.invoke = "returned",
                   !.exit = "returned", !.value = response]
    ELSE [b EXCEPT !.pc = "ended", !.response = response, !.invoke = "returned",
                   !.exit = IF s.raised THEN "raised" ELSE "returned",
                   !.value = IF s.raised THEN None ELSE s.value]

invoke_raise(a) == [a EXCEPT !.pc = "ended", !.invoke = "raised", !.exit = "raised"]

invoke_cancelled_caught(a) ==
    IF a.pc = "primary" THEN [a EXCEPT !.primary = "raised", !.warnings = @ + 1,
                                       !.calls = Append(@, [who |-> "fallback",
                                                            timeout |-> 1]),
                                       !.pc = "fallback"]
    ELSE [a EXCEPT !.pc = "ended", !.invoke = "raised", !.exit = "raised"]

(* _invoke, lines 140-147 and 162: CancelledError raised at the await of the primary or
   of the fallback is no Exception, so it leaves _invoke, summarize or sentiment *)
invoke_cancelled(a) ==
    [a EXCEPT !.pc = "ended", !.invoke = "cancelled", !.exit = "cancelled"]

(* _invoke, lines 147-163, and _invoke_fallback, lines 191-196, up to its await: the
   primary has failed in the way `how` *)
primary_failed(a, how) ==
    LET b == [a EXCEPT !.primary = how, !.warnings = @ + 1] IN
    IF adapter.fallback = "none" THEN invoke_raise(b)
    ELSE LET c == [b EXCEPT !.calls = Append(@, Invocation("fallback"))] IN
         IF adapter.fallback = "gemini"
         THEN invoke_raise([c EXCEPT !.fallback = "raised"])
         ELSE [c EXCEPT !.pc = "fallback"]

(* summarize / sentiment, lines 116-122, and _invoke, lines 138-146, up to the await
   of the primary *)
AdCall(op) ==
    /\ ad.pc \in {"idle", "ended"}
    /\ ad_calls < MaxAdapterCalls
    /\ ad_calls' = ad_calls + 1
    /\ LET a == [NoCall EXCEPT !.op = op, !.brand = adapter.labels.brand,
                              !.calls = <<Invocation("primary")>>] IN
       ad' = IF adapter.primary = "gemini" THEN primary_failed(a, "raised")
             ELSE [a EXCEPT !.pc = "primary"]
    /\ UNCHANGED <<notAdapter, adapter>>

(* process_chunk, line 47, or any other with-statement on context(): a scope is
   entered, between two calls of the adapter *)
CtxEnter(labels) ==
    /\ ad.pc \in {"idle", "ended"}
    /\ Len(adapter.saved) < MaxDepth
    /\ adapter' = [context_enter(adapter, labels) EXCEPT
                      !.left = "none", !.scopes = <<labels>> \o @]
    /\ UNCHANGED <<notAdapter, ad, ad_calls>>

(* the innermost scope is left, by the end of its body or by an exception raised in
   it: the finally clause runs either way *)
CtxExit(how) ==
    /\ ad.pc \in {"idle", "ended"}
    /\ adapter.saved # <<>>
    /\ adapter' = [context_exit(adapter) EXCEPT !.left = how, !.scopes = Tail(@)]
    /\ UNCHANGED <<notAdapter, ad, ad_calls>>

(* _invoke, lines 140-163: the primary returns, raises or times out *)
AdPrimaryEnd ==
    /\ ad.pc = "primary"
    /\ \E how \in invoke_outcomes(adapter.primary) :
         IF how = "ok"
         THEN \E r \in invoke_responses(adapter.primary, ad.op) :
                 ad' = invoke_return([ad EXCEPT !.primary = "ok"], r)
         ELSE ad' = primary_failed(ad, how)
    /\ UNCHANGED <<notAdapter, adapter, ad_calls>>

(* _invoke_fallback, lines 191-196, and _invoke, lines 163-180: the fallback returns,
   raises or times out; its failure leaves _invoke *)
AdFallbackEnd ==
    /\ ad.pc = "fallback"
    /\ \E how \in invoke_outcomes(adapter.fallback) :
         IF how = "ok"
         THEN \E r \in invoke_responses(adapter.fallback, ad.op) :
                 ad' = invoke_return([ad EXCEPT !.fallback = "ok"], r)
         ELSE ad' = invoke_raise([ad EXCEPT !.fallback = how])
    /\ UNCHANGED <<notAdapter, adapter, ad_calls>>

(* the LLM call that worker w's process_chunk has made is in flight *)
InLlmCall(w) == ppc[w] = "process" /\ ad.pc \in {"primary", "fallback"}

(* process_chunk, through the adapter, calls the LLM while worker w handles an item *)
WkAdCall(w, op) ==
    /\ ppc[w] = "process"
    /\ Runnable(w, "processing")
    /\ AdCall(op)

(* the LLM call of worker w's process_chunk ends: its primary, then its fallback *)
WkAdPrimaryEnd(w) == Runnable(w, "processing") /\ AdPrimaryEnd
WkAdFallbackEnd(w) == Runnable(w, "processing") /\ AdFallbackEnd

(* process_chunk returns or raises, with no LLM call in flight; an LLM call that
   raised has left process_chunk with its exception *)
WkProcess(w) ==
    /\ ~InLlmCall(w)
    /\ ProcProcess(w)
    /\ ad.exit = "raised" => ppc'[w] # "push"

(* a task is cancelled at an await that is not inside an LLM call *)
WkTaskCancelled(w, t) ==
    /\ t = "processing" => ~InLlmCall(w)
    /\ TaskCancelled(w, t)

(* the processing task is cancelled at the await of the primary or of the fallback *)
WkCancelledInLlm(w) ==
    /\ InLlmCall(w)
    /\ task_cancelled(w, "processing")
    /\ ad' = invoke_cancelled(ad)
    /\ UNCHANGED <<llmVars, spikeVars, processorVars, clockVars, formatVars,
                   consumerVars, adapter, ad_calls>>

(***************************************************************************)
(* Processor (processor.ChunkProcessor) and the result format               *)
(* (storage.ResultStorage).  A text is the sequence of its pieces: "U" is a *)
(* URL head (https://x), " " a whitespace character, "A" an upper-case      *)
(* letter, any other piece a lower-case word.                               *)
(***************************************************************************)
MaxMentions == 3
MaxClusters == 2
MaxStepMs == 1
MaxExamples == 2

RawTexts ==
    { <<"U">>, <<"a">>, <<"A", " ", "U">>, <<"a", " ", " ", "b">> }

(* CLEAN_URL_RE.sub("", text): a URL runs from its head to the next whitespace *)
RECURSIVE strip_urls(_, _)
strip_urls(text, in_url) ==
    IF text = <<>> THEN <<>>
    ELSE IF Head(text) = "U" THEN strip_urls(Tail(text), TRUE)
    ELSE IF Head(text) = " " THEN <<" ">> \o strip_urls(Tail(text), FALSE)
    ELSE IF in_url THEN strip_urls(Tail(text), TRUE)
    ELSE <<Head(text)>> \o strip_urls(Tail(text), FALSE)

(* CLEAN_WHITESPACE_RE.sub(" ", text): every run of whitespace becomes one space *)
RECURSIVE collapse_whitespace(_)
collapse_whitespace(text) ==
    IF Len(text) <= 1 THEN text
    ELSE IF text[1] = " " /\ text[2] = " " THEN collapse_whitespace(Tail(text))
    ELSE <<text[1]>> \o collapse_whitespace(Tail(text))

(* str.strip() *)
RECURSIVE strip(_)
strip(text) ==
    IF text = <<>> THEN <<>>
    ELSE IF Head(text) = " " THEN strip(Tail(text))
    ELSE IF text[Len(text)] = " " THEN strip(SubSeq(text, 1, Len(text) - 1))
    ELSE text

(* str.lower() *)
lower(text) == [i \in 1 .. Len(text) |-> IF text[i] = "A" THEN "a" ELSE text[i]]

(* _clean_text, lines 183-188 *)
clean_text(text) == lower(strip(collapse_whitespace(strip_urls(text, FALSE))))

Mention(id, text) == [id |-> id, text |-> text]

preprocess_keep_all(mentions) ==
    [i \in 1 .. Len(mentions) |-> Mention(mentions[i].id, clean_text(mentions[i].text))]

(* _preprocess, lines 94-108 and 125: the values of the dict keyed by cleaned text, in
   insertion order *)
RECURSIVE preprocess(_)
preprocess(mentions) ==
    IF mentions = <<>> THEN <<>>
    ELSE LET before == preprocess(SubSeq(mentions, 1, Len(mentions) - 1))
             last == mentions[Len(mentions)]
             cleaned == clean_text(last.text)
         IN  IF cleaned = <<>> THEN before
             ELSE IF \E j \in 1 .. Len(before) : before[j].text = cleaned THEN before
             ELSE Append(before, Mention(last.id, cleaned))

examples_all(cluster_mentions, n) ==
    [i \in 1 .. Len(cluster_mentions) |-> cluster_mentions[i].text]

(* _analyze_clusters, line 156: the texts of cluster_mentions[:preprocessing_examples] *)
examples_of(cluster_mentions, n) ==
    [i \in 1 .. Min(n, Len(cluster_mentions)) |-> cluster_mentions[i].text]

(* _analyze_clusters, line 154: the mentions at the grouping's (0-based) indices *)
cluster_mentions_of(mentions, indices) ==
    [i \in 1 .. Len(indices) |-> mentions[indices[i] + 1]]

ClusterResult_no_spike(grouping, mentions, n_examples, summary, sentiment, is_spike) ==
    LET cm == cluster_mentions_of(mentions, grouping.indices) IN
    [cluster_id |-> grouping.cluster_id, count |-> Len(cm),
     examples |-> examples_of(cm, n_examples), summary |-> summary,
     spike |-> FALSE, sentiment |-> sentiment]

(* _analyze_clusters, lines 167-176: the ClusterResult of one grouping *)
ClusterResult(grouping, mentions, n_examples, summary, sentiment, is_spike) ==
    LET cm == cluster_mentions_of(mentions, grouping.indices) IN
    [cluster_id |-> grouping.cluster_id, count |-> Len(cm),
     examples |-> examples_of(cm, n_examples), summary |-> summary,
     spike |-> is_spike, sentiment |-> sentiment]

NoMetrics ==
    [preprocessing_time_ms |-> 0, embedding_time_ms |-> 0, clustering_time_ms |-> 0,
     llm_time_ms |-> 0, spike_detection_time_ms |-> 0, io_time_ms |-> 0,
     total_task_time_ms |-> 0]

(* summaries an LLM gives: a sentence, blanks only, a sentiment JSON object *)
Summaries == {<<"hi">>, <<" ">>, <<"{positive,negative}">>}

(* the test of line 128: the text starts with "{", ends with "}" and contains
   "positive" and "negative" *)
is_sentiment_blob(text) == text = <<"{positive,negative}">>

normalize_keep_blob(summary, examples, fallback_label) ==
    LET c1 == strip(summary)
        c2 == IF c1 = <<>> /\ examples # <<>> THEN strip(examples[1]) ELSE c1
    IN  IF c2 = <<>> /\ fallback_label # <<>> THEN fallback_label ELSE c2

(* _normalize_summary_text, lines 126-134 *)
normalize_summary_text(summary, examples, fallback_label) ==
    LET stripped == strip(summary)
        c1 == IF is_sentiment_blob(stripped) THEN <<>> ELSE stripped
        c2 == IF c1 = <<>> /\ examples # <<>> THEN strip(examples[1]) ELSE c1
    IN  IF c2 = <<>> /\ fallback_label # <<>> THEN fallback_label ELSE c2

(* _build_clusters, lines 70-86 *)
build_clusters(clusters) ==
    [i \in 1 .. Len(clusters) |->
        [id |-> ToString(clusters[i].cluster_id),
         label |-> normalize_summary_text(clusters[i].summary, clusters[i].examples,
                                          <<"Cluster", ToString(clusters[i].cluster_id)>>),
         mentions |-> clusters[i].examples,
         sentimentScore |-> clusters[i].sentiment["positive"]
                              - clusters[i].sentiment["negative"],
         spike |-> clusters[i].spike,
         mentionCount |-> clusters[i].count]]

(* the slice [:10] of line 114 *)
TopicsMax == 10

(* _extract_topics, lines 107-113: the loop that collects the topics *)
RECURSIVE topic_candidates(_)
topic_candidates(clusters) ==
    IF clusters = <<>> THEN <<>>
    ELSE LET c == clusters[Len(clusters)]
             normalized == normalize_summary_text(c.summary, c.examples, <<>>)
         IN  topic_candidates(SubSeq(clusters, 1, Len(clusters) - 1))
                \o (IF normalized # <<>> THEN <<normalized>>
                    ELSE IF c.examples # <<>> THEN <<c.examples[1]>>
                    ELSE <<>>)

NonEmptyText(text) == text # <<>>

(* _extract_topics, lines 106-114: the topics trimmed, the empty ones dropped, the
   first ten kept *)
extract_topics(clusters) ==
    LET topics == topic_candidates(clusters)
        trimmed == SelectSeq([i \in 1 .. Len(topics) |-> strip(topics[i])], NonEmptyText)
    IN  SubSeq(trimmed, 1, IF Len(trimmed) < TopicsMax THEN Len(trimmed) ELSE TopicsMax)

(* _combine_summaries, lines 115-124: the normalized summaries, to be joined by spaces *)
RECURSIVE combine_summaries(_)
combine_summaries(clusters) ==
    IF clusters = <<>> THEN <<>>
    ELSE LET c == clusters[Len(clusters)]
             normalized == normalize_summary_text(c.summary, c.examples, <<>>)
         IN  combine_summaries(SubSeq(clusters, 1, Len(clusters) - 1))
                \o (IF normalized # <<>> THEN <<normalized>> ELSE <<>>)

RECURSIVE SumCounts(_)
SumCounts(payload) ==
    IF payload = <<>> THEN 0
    ELSE payload[Len(payload)].mentionCount + SumCounts(SubSeq(payload, 1, Len(payload) - 1))

(* _format_for_orchestrator, lines 48-68, as json.dumps fixes it at line 29 *)
format_for_orchestrator(result) ==
    LET clusters_payload == build_clusters(result.clusters) IN
    [chunkId |-> result.chunk_id, brand |-> result.brand,
     clusters |-> clusters_payload,
     topics |-> extract_topics(result.clusters),
     summary |-> combine_summaries(result.clusters),
     spikeDetected |-> \E i \in 1 .. Len(clusters_payload) : clusters_payload[i].spike,
     meta |-> [metrics |-> result.metrics, mentionCount |-> SumCounts(clusters_payload)]]

Injective(f) == \A i, j \in DOMAIN f : i # j => f[i] # f[j]
Range(f) == {f[i] : i \in DOMAIN f}

(* index lists a grouping can have over n mentions: distinct 0-based positions *)
IndexLists(n) ==
    {f \in UNION {[1 .. m -> 0 .. n - 1] : m \in 1 .. n} : Injective(f)}

(* Clusterer.cluster: a partition or partial cover of the mention indices into at most
   MaxClusters integer-labelled groupings *)
Groupings(n) ==
    {[k \in 1 .. Len(g) |-> [cluster_id |-> k - 1, indices |-> g[k]]] :
        g \in {h \in UNION {[1 .. m -> IndexLists(n)] : m \in 0 .. MaxClusters} :
                 \A i, j \in DOMAIN h : i # j => Range(h[i]) \cap Range(h[j]) = {}}}

(* the spike lists of one brand: the same list under every cluster_id *)
ClusterIds == 0 .. MaxClusters - 1
SpikeLists(list) == [c \in ClusterIds |-> list]

(* the spike detector: the fewest prior observations it classifies against *)
MinObservations == 3

RECURSIVE SumSeq(_)
SumSeq(h) == IF h = <<>> THEN 0 ELSE h[1] + SumSeq(Tail(h))

(* the spike detector's rule: with n observations of sum S and sum of squares Q, the
   mean is S/n and the standard deviation sqrt(Q/n - (S/n)^2), so that
   current_count > mean + 2*stddev is n*c - S > 0 and (n*c - S)^2 > 4*(n*Q - S^2) *)
is_spike(history, current_count) ==
    LET n == Len(history)
        S == SumSeq(history)
        Q == SumSeq([i \in 1 .. n |-> history[i] * history[i]])
        d == n * current_count - S
    IN  /\ n >= MinObservations
        /\ current_count > 1
        /\ d > 0
        /\ d * d > 4 * (n * Q - S * S)

(* the spike detector's detect over the store: get_spike_history, lines 94-101, gives
   the list or, on a store error, the empty list; append_spike_history, lines 103-113,
   pushes the count or, on a store error, leaves the list; the history read is
   classified *)
detect(list, read_ok, append_ok, current_count) ==
    LET history == IF read_ok THEN list ELSE <<>> IN
    [history |-> history,
     list |-> IF append_ok THEN append_spike_history(list, current_count) ELSE list,
     is_spike |-> is_spike(history, current_count)]

(* the stage whose call process_chunk or _analyze_clusters has made *)
started(p, stage, k) == [p EXCEPT !.trace = Append(@, [stage |-> stage, k |-> k])]

stage_after_skip(stage) == "spike"

(* _analyze_clusters, lines 159-164: summarize, then sentiment, then detect *)
stage_after(stage) == IF stage = "summarize" THEN "sentiment" ELSE "spike"

NoProc ==
    [pc |-> "idle", now |-> 0, t0 |-> 0, mark |-> 0, mentions |-> <<>>,
     groupings |-> <<>>, k |-> 0, summary |-> <<>>, sentiment |-> None, clusters |-> <<>>,
     llm_total_ms |-> 0, spike_total_ms |-> 0, metrics |-> NoMetrics, invoked |-> {},
     result |-> None, serialized |-> None, push_time_ms |-> 0, failure |-> None,
     exit |-> "none", trace |-> <<>>, reads |-> <<>>]

(* process_chunk, lines 52-58 and 69-90: the ChunkResult is returned; then
   handle_payload, line 138, and push_result, lines 28-31, up to the await of rpush:
   the result is serialized *)
process_chunk_return(p, clusters) ==
    LET m == [p.metrics EXCEPT !.total_task_time_ms = (p.now - p.t0) + p.metrics.io_time_ms]
        result == [chunk_id |-> pchunk.chunk_id, brand |-> pchunk.brand,
                   clusters |-> clusters, metrics |-> m]
    IN  [p EXCEPT !.pc = "push", !.metrics = m, !.clusters = clusters, !.result = result,
                  !.serialized = format_for_orchestrator(result), !.mark = p.now]

(* handle_payload, lines 144-152, and _record_failure, lines 164-172: an exception of
   the pipeline or of the push is caught and the failure record built *)
processing_failed(p) ==
    [p EXCEPT !.pc = "recfail",
              !.failure = [brand |-> pchunk.brand, chunk_id |-> pchunk.chunk_id,
                           reason |-> "Processing failed"]]

Tick(p, d) == [p EXCEPT !.now = @ + d]

short_circuit_never(mentions) == FALSE

(* process_chunk, line 49: no mention survived preprocessing *)
short_circuit(mentions) == mentions = <<>>

(* process_chunk, lines 43-60: preprocess, then the short-circuit return or the call
   of the embedding adapter *)
PcStart ==
    /\ pr.pc = "idle"
    /\ \E d \in penv.durations :
         LET p0 == [pr EXCEPT !.metrics = [NoMetrics EXCEPT !.io_time_ms = penv.fetch_time_ms],
                              !.t0 = pr.now]
             p1 == [started(Tick(p0, d), "preprocess", 0) EXCEPT
                        !.mentions = preprocess(pchunk.mentions),
                        !.metrics.preprocessing_time_ms = d]
         IN  pr' = IF short_circuit(p1.mentions) THEN process_chunk_return(p1, <<>>)
                   ELSE [started(p1, "embed", 0) EXCEPT
                             !.pc = "embed", !.mark = p1.now,
                             !.invoked = @ \cup {"embed"}]
    /\ UNCHANGED <<notProcessor, psettings, penv, pchunk, presults, pfailures, pspike>>

(* _generate_embeddings, lines 127-135, and process_chunk, lines 60-63 *)
PcEmbed ==
    /\ pr.pc = "embed"
    /\ \E d \in penv.durations, ok \in BOOLEAN :
         LET p == Tick(pr, d) IN
         pr' = IF ok
               THEN [started(p, "cluster", 0) EXCEPT
                        !.pc = "cluster", !.invoked = @ \cup {"cluster"},
                        !.metrics.embedding_time_ms = p.now - pr.mark]
               ELSE processing_failed(p)
    /\ UNCHANGED <<notProcessor, psettings, penv, pchunk, presults, pfailures, pspike>>

(* process_chunk, lines 63-66, and _analyze_clusters, lines 148-158: the clusterer
   returns its groupings, or raises *)
PcCluster ==
    /\ pr.pc = "cluster"
    /\ \E d \in penv.durations :
         LET p == [Tick(pr, d) EXCEPT !.metrics.clustering_time_ms = d] IN
         \/ pr' = processing_failed(p)
         \/ \E g \in Groupings(Len(pr.mentions)) :
              pr' = IF g = <<>> THEN process_chunk_return(p, <<>>)
                    ELSE [started(p, "summarize", 1) EXCEPT
                             !.pc = "summarize", !.groupings = g, !.k = 1,
                             !.mark = p.now, !.invoked = @ \cup {"llm"}]
    /\ UNCHANGED <<notProcessor, psettings, penv, pchunk, presults, pfailures, pspike>>

(* _analyze_clusters, lines 158-159: summarize returns or raises *)
PcSummarize ==
    /\ pr.pc = "summarize"
    /\ \E d \in penv.durations :
         \/ pr' = processing_failed(Tick(pr, d))
         \/ \E text \in penv.summaries :
              pr' = [started(Tick(pr, d), stage_after("summarize"), pr.k) EXCEPT
                        !.pc = stage_after("summarize"), !.summary = text]
    /\ UNCHANGED <<notProcessor, psettings, penv, pchunk, presults, pfailures, pspike>>

(* _analyze_clusters, lines 160-161: sentiment returns or raises *)
PcSentiment ==
    /\ pr.pc = "sentiment"
    /\ \E d \in penv.durations :
         LET p == Tick(pr, d) IN
         \/ pr' = processing_failed(p)
         \/ \E r \in penv.responses :
              LET s == sentiment_parse(r) IN
              pr' = IF s.raised THEN processing_failed(p)
                    ELSE [started(p, stage_after("sentiment"), pr.k) EXCEPT
                             !.pc = stage_after("sentiment"), !.sentiment = s.value,
                             !.llm_total_ms = @ + (p.now - pr.mark),
                             !.mark = p.now, !.invoked = @ \cup {"spike"}]
    /\ UNCHANGED <<notProcessor, psettings, penv, pchunk, presults, pfailures, pspike>>

(* _analyze_clusters, lines 163-180: spike detection reads the cluster's list, appends
   the cluster's count and classifies, or raises; the ClusterResult is appended; after
   the last grouping process_chunk returns *)
PcSpike ==
    /\ pr.pc = "spike"
    /\ \E d \in penv.durations :
         LET p == Tick(pr, d) IN
         \/ /\ pr' = processing_failed(p)
            /\ UNCHANGED pspike
         \/ \E read_ok, append_ok \in penv.store_ok :
              LET grouping == pr.groupings[pr.k]
                  spike_result == detect(pspike[grouping.cluster_id], read_ok, append_ok,
                                         Len(grouping.indices))
                  c == ClusterResult(grouping, pr.mentions,
                                     psettings.preprocessing_examples, pr.summary,
                                     pr.sentiment, spike_result.is_spike)
                  q == [p EXCEPT !.spike_total_ms = @ + (p.now - pr.mark),
                                 !.clusters = Append(@, c),
                                 !.reads = Append(@, spike_result.history)]
              IN  /\ pspike' = [pspike EXCEPT ![grouping.cluster_id] = spike_result.list]
                  /\ pr' = IF pr.k < Len(pr.groupings)
                            THEN [started(q, "summarize", pr.k + 1) EXCEPT
                                     !.pc = "summarize", !.k = @ + 1, !.mark = p.now]
                            ELSE process_chunk_return(
                                    [q EXCEPT !.metrics.llm_time_ms = q.llm_total_ms,
                                              !.metrics.spike_detection_time_ms =
                                                  q.spike_total_ms],
                                    q.clusters)
    /\ UNCHANGED <<notProcessor, psettings, penv, pchunk, presults, pfailures>>

(* push_result, lines 30-46, and handle_payload, lines 138-152: the rpush returns and
   the push time is added to the result's io time, or the rpush raises *)
PcPush ==
    /\ pr.pc = "push"
    /\ \E d \in penv.durations, ok \in BOOLEAN :
         LET p == Tick(pr, d) IN
         IF ok
         THEN /\ presults' = Append(presults, pr.serialized)
              /\ pr' = [p EXCEPT !.pc = "done", !.exit = "returned",
                                 !.push_time_ms = p.now - pr.mark,
                                 !.result.metrics.io_time_ms = @ + (p.now - pr.mark)]
         ELSE /\ pr' = processing_failed(p)
              /\ UNCHANGED presults
    /\ UNCHANGED <<notProcessor, psettings, penv, pchunk, pfailures, pspike>>

(* storage.record_failure, lines 137-156: the failure record is pushed, or the rpush
   raises and the exception leaves handle_payload *)
PcRecFail ==
    /\ pr.pc = "recfail"
    /\ \E d \in penv.durations, ok \in BOOLEAN :
         IF ok
         THEN /\ pfailures' = Append(pfailures, pr.failure)
              /\ pr' = [Tick(pr, d) EXCEPT !.pc = "done", !.exit = "returned"]
         ELSE /\ pr' = [Tick(pr, d) EXCEPT !.pc = "done", !.exit = "raised"]
              /\ UNCHANGED pfailures
    /\ UNCHANGED <<notProcessor, psettings, penv, pchunk, presults, pspike>>

(***************************************************************************)
(* Initial states: the settings and the contents of the input queues.      *)
(***************************************************************************)
QueueOf(items, b) == SelectSeq(items, LAMBDA it : it.brand = b)

StripBrand(q) == [i \in 1 .. Len(q) |-> [id |-> q[i].id, text |-> q[i].text]]

InitLists(prefix, texts, nmax) ==
    { [k \in Keys |->
         IF \E b \in Brands : k = QueueKey(prefix, b)
         THEN StripBrand(QueueOf([i \in 1 .. x[1] |->
                           [id |-> i, text |-> x[2][i][1], brand |-> x[2][i][2]]],
                         k[Len(prefix) + 1]))
         ELSE <<>>] :
      x \in UNION { {<<m, g>> : g \in [1 .. m -> texts \X Brands]} :
                    m \in 0 .. nmax } }

(* The initial state of a deployment: `active` workers constructed and not yet
   started, settings drawn from S, input queues drawn from InitLists. *)
WorkersInit(S, active, texts, nmax) ==
    /\ settings \in S
    /\ lists \in InitLists(settings.redis_queue_prefix, texts, nmax)
    /\ hbkey = [w \in Workers |-> None]
    /\ svc = [w \in Workers |-> IF w \in active THEN "new" ELSE "absent"]
    /\ stop_event = [w \in Workers |-> FALSE]
    /\ tasks = [w \in Workers |-> {}]
    /\ redis_open = [w \in Workers |-> TRUE]
    /\ hbpc = [w \in Workers |-> "idle"]
    /\ ppc = [w \in Workers |-> "idle"]
    /\ cancel_req = [w \in Workers |-> {}]
    /\ cur = [w \in Workers |-> NoCur]
    /\ chunks_failed = [w \in Workers |-> [k \in BrandLabels \X Reasons |-> 0]]
    /\ chunks_done = [w \in Workers |-> [b \in BrandLabels |-> 0]]
    /\ popped = [w \in Workers |-> <<>>]
    /\ finished = [w \in Workers |-> <<>>]
    /\ hist = [i \in PayloadIds |-> [failedAt |-> "none", exit |-> "none", queue |-> <<>>]]
    /\ procs = [i \in PayloadIds |-> 0]
    /\ hbt = [w \in Workers |-> NoBeat]

(* No _run_chain caller yet; the executor module just imported. *)
LlmInit(S) ==
    /\ llm_settings \in S
    /\ executor = NoClients
    /\ rc = [c \in Callers |-> "idle"]
    /\ rc_thread = [c \in Callers |-> "none"]
    /\ orphans = 0
    /\ rc_calls = [c \in Callers |-> 0]

Ones(n) == [i \in 1 .. n |-> 1]

(* Spike lists as earlier appends left them: n observations, just written. *)
SpikeInit(lens) ==
    /\ spike_ttl_sec \in {SpikeTtlMin, SpikeTtlMin + 1}
    /\ spike_list \in [SpikeKeys -> {Ones(n) : n \in lens}]
    /\ spike_ttl = [k \in SpikeKeys |-> IF spike_list[k] # <<>> THEN spike_ttl_sec ELSE 0]
    /\ spike_last = [k \in SpikeKeys |->
                       IF spike_list[k] # <<>> THEN [value |-> 1, age |-> 0] ELSE None]
    /\ spike_lock = [p \in Workers |-> "free"]
    /\ ap = [a \in Appenders |-> NoAppend]
    /\ n_appends = 0

WorkersOff ==
    WorkersInit([heartbeat_interval_sec : {1}, max_retries : {0},
                 redis_queue_prefix : {<<"q">>}], {}, {}, 0)

LlmOff ==
    LlmInit([gemini_api_key : {FALSE}, llm_max_concurrency : {1}, llm_min_delay_sec : {0}])

SpikeOff == SpikeInit({0}) /\ spike_ttl_sec = SpikeTtlMin

Providers == {"mock", "gemini", "openai"}

(* the adapters get_llm_adapter can build, lines 242-255; no call made yet *)
AdapterInit(providers, timeouts) ==
    /\ adapter \in {[primary |-> m.primary, fallback |-> m.fallback, timeout |-> t,
                      labels |-> NoLabels, saved |-> <<>>, scopes |-> <<>>,
                      left |-> "none"] :
                       m \in {b \in {build_chat_models(p, g, o) :
                                        p \in providers, g \in BOOLEAN, o \in BOOLEAN} :
                                 ~b.raised},
                       t \in timeouts}
    /\ ad = NoCall
    /\ ad_calls = 0

AdapterOff == AdapterInit({"mock"}, {1})

(* chunks of up to n mentions with texts from T; a mention's id is its position *)
Chunks(T, n) ==
    {[brand |-> "acme", chunk_id |-> "c1",
      mentions |-> [i \in 1 .. Len(ts) |-> Mention(i, ts[i])]] :
        ts \in UNION {[1 .. m -> T] : m \in 0 .. n}}

ProcessorInit(E, S, C, H) ==
    /\ penv \in E
    /\ psettings \in S
    /\ pchunk \in C
    /\ pspike \in H
    /\ pr = NoProc
    /\ presults = <<>>
    /\ pfailures = <<>>

QuietEnv ==
    [fetch_time_ms : {0}, durations : {{0}}, summaries : {{<<"hi">>}},
     responses : {{Text("{positive:0.2,negative:0.3,neutral:0.5}")}},
     store_ok : {{TRUE}}]

ProcessorOff ==
    ProcessorInit(QuietEnv, [preprocessing_examples : {1}], Chunks({}, 0),
                  {SpikeLists(<<>>)})

(* no formatting run: nothing is given to _format_for_orchestrator *)
FormatOff ==
    /\ fresult = None
    /\ fpayload = None

(* an optional time: none, or the time t *)
NoTime == <<>>
At(t) == <<t>>

(* QueueConsumer.__init__, lines 21-26, at clock time now with log interval i *)
NewConsumer(now, i) ==
    [waiting_since |-> NoTime, last_wait_log |-> 0, gauge |-> 0, now |-> now,
     interval |-> i, outcome |-> "none", logged_at |-> NoTime]

ConsumerOff == qc = NewConsumer(0, 1)

(* One worker; every payload text, queue prefix and retry budget. *)
Init ==
    /\ WorkersInit([heartbeat_interval_sec : {1},
                    max_retries : 0 .. MaxRetries,
                    redis_queue_prefix : QueuePrefixes], {"w1"}, PayloadTexts, MaxPayloads)
    /\ LlmOff
    /\ SpikeOff
    /\ AdapterOff
    /\ FormatOff
    /\ ConsumerOff
    /\ ProcessorOff

(* One worker draining a sequence of payloads; every heartbeat interval. *)
InitSeq ==
    /\ WorkersInit([heartbeat_interval_sec : 1 .. MaxInterval,
                    max_retries : {0},
                    redis_queue_prefix : {<<"svc", "q">>}], {"w1"}, FleetTexts,
                   MaxSeqPayloads)
    /\ LlmOff
    /\ SpikeOff
    /\ AdapterOff
    /\ FormatOff
    /\ ConsumerOff
    /\ ProcessorOff

(* Two workers competing for the same queues. *)
InitFleet ==
    /\ WorkersInit([heartbeat_interval_sec : {1},
                    max_retries : {0},
                    redis_queue_prefix : {<<"svc", "q">>}], Workers,
                   {"{brand:acme,chunkId:c1,createdAt:t,mentions:[]}"}, MaxPayloads)
    /\ LlmOff
    /\ SpikeOff
    /\ AdapterOff
    /\ FormatOff
    /\ ConsumerOff
    /\ ProcessorOff

(* Concurrent _run_chain callers. *)
InitLLM ==
    /\ WorkersOff
    /\ LlmInit([gemini_api_key : BOOLEAN,
                llm_max_concurrency : 1 .. MaxConcurrency,
                llm_min_delay_sec : {0, 2}])
    /\ SpikeOff
    /\ AdapterOff
    /\ FormatOff
    /\ ConsumerOff
    /\ ProcessorOff

(* Concurrent append_spike_history calls from two worker processes. *)
InitSpike ==
    /\ WorkersOff
    /\ LlmOff
    /\ SpikeInit({0, 1, SpikeHistoryMax - 1, SpikeHistoryMax})
    /\ AdapterOff
    /\ FormatOff
    /\ ConsumerOff
    /\ ProcessorOff

(* Summarize and sentiment calls on every adapter the configuration can build. *)
InitAdapter ==
    /\ WorkersOff
    /\ LlmOff
    /\ SpikeOff
    /\ AdapterInit(Providers, 1 .. MaxTimeout)
    /\ FormatOff
    /\ ConsumerOff
    /\ ProcessorOff

(* One chunk through process_chunk and the push: every chunk of up to MaxMentions
   mentions with a quiet LLM; a chunk of distinct and repeated texts with every summary
   and response the LLM can give, or with spike lists of ones in a store whose calls
   can fail; short chunks with every step taking time. *)
InitProc ==
    /\ WorkersOff
    /\ LlmOff
    /\ SpikeOff
    /\ AdapterOff
    /\ FormatOff
    /\ ConsumerOff
    /\ \/ ProcessorInit(QuietEnv, [preprocessing_examples : {1}],
                        Chunks(RawTexts, MaxMentions),
                        {SpikeLists(<<>>)})
       \/ ProcessorInit({e \in [fetch_time_ms : {0}, durations : {{0}},
                                summaries : {{x} : x \in Summaries},
                                responses : {{r} : r \in Responses},
                                store_ok : {{TRUE}, BOOLEAN}] :
                            LET quiet_llm ==
                                    /\ e.summaries = {<<"hi">>}
                                    /\ e.responses
                                         = {Text("{positive:0.2,negative:0.3,neutral:0.5}")}
                            IN  IF e.store_ok = {TRUE}
                                THEN \/ e.summaries = {<<"hi">>}
                                     \/ e.responses
                                          = {Text("{positive:0.2,negative:0.3,neutral:0.5}")}
                                ELSE quiet_llm},
                        [preprocessing_examples : 1 .. MaxExamples],
                        {c \in Chunks({<<"a">>, <<"b">>, <<"a", " ", " ", "b">>}, 3) :
                            Len(c.mentions) = 3},
                        {SpikeLists(Ones(MinObservations))})
       \/ ProcessorInit([fetch_time_ms : 0 .. MaxStepMs, durations : {0 .. MaxStepMs},
                         summaries : {{<<"hi">>}},
                         responses : {{Text("{positive:0.2,negative:0.3,neutral:0.5}")}},
                         store_ok : {{TRUE}}],
                        [preprocessing_examples : {1}],
                        Chunks({<<"U">>, <<"a">>}, 1),
                        {SpikeLists(<<>>)})

Next ==
    \/ \E w \in Workers : Start(w)
    \/ \E w \in Workers : StopBegin(w)
    \/ \E w \in Workers : StopEnd(w)
    \/ \E w \in Workers, t \in TaskNames : TaskCancelled(w, t)
    \/ \E w \in Workers : HbSet(w)
    \/ \E w \in Workers : HbWake(w)
    \/ \E w \in Workers : ProcScan(w)
    \/ \E w \in Workers : ProcSleep(w)
    \/ \E w \in Workers : ProcBlpop(w)
    \/ \E w \in Workers : ProcProcess(w)
    \/ \E w \in Workers : ProcPush(w)
    \/ \E w \in Workers : ProcRecFail(w)

Spec == Init /\ [][Next]_vars

SpecSeq == InitSeq /\ [][Next]_vars

SpecFleet == InitFleet /\ [][Next]_vars

NextLLM ==
    \/ \E c \in Callers : RcCall(c)
    \/ \E c \in Callers, family \in Families : InvokeCall(c, family)
    \/ \E c \in Callers : RcAcquire(c)
    \/ \E c \in Callers : ThreadEnd(c)
    \/ \E c \in Callers : RcResume(c)
    \/ \E c \in Callers : RcTimeout(c)
    \/ \E c \in Callers : RcDelayEnd(c)
    \/ \E c \in Callers : RcCancelled(c)
    \/ OrphanEnd

SpecLLM == InitLLM /\ [][NextLLM]_vars

NextSpike ==
    \/ \E a \in Appenders, k \in SpikeKeys, v \in SpikeValues : ApCall(a, k, v)
    \/ \E a \in Appenders : ApLock(a)
    \/ \E a \in Appenders : ApExec(a)
    \/ SpikeTick

SpecSpike == InitSpike /\ [][NextSpike]_vars

NextAdapter ==
    \/ \E op \in Operations : AdCall(op)
    \/ \E labels \in Labels : CtxEnter(labels)
    \/ \E how \in {"normal", "exception"} : CtxExit(how)
    \/ AdPrimaryEnd
    \/ AdFallbackEnd

SpecAdapter == InitAdapter /\ [][NextAdapter]_vars

(* One worker whose process_chunk calls the LLM through the adapter. *)
InitCancel ==
    /\ WorkersInit([heartbeat_interval_sec : {1},
                    max_retries : {0},
                    redis_queue_prefix : {<<"q">>}], {"w1"},
                   {"{brand:acme,chunkId:c1,createdAt:t,mentions:[]}"}, MaxPayloads)
    /\ LlmOff
    /\ SpikeOff
    /\ AdapterInit(Providers, {1})
    /\ FormatOff
    /\ ConsumerOff
    /\ ProcessorOff

NextCancel ==
    \/ \E w \in Workers : Start(w)
    \/ \E w \in Workers : StopBegin(w)
    \/ \E w \in Workers : StopEnd(w)
    \/ \E w \in Workers, t \in TaskNames : WkTaskCancelled(w, t)
    \/ \E w \in Workers : WkCancelledInLlm(w)
    \/ \E w \in Workers : HbSet(w)
    \/ \E w \in Workers : HbWake(w)
    \/ \E w \in Workers : ProcScan(w)
    \/ \E w \in Workers : ProcSleep(w)
    \/ \E w \in Workers : ProcBlpop(w)
    \/ \E w \in Workers, op \in Operations : WkAdCall(w, op)
    \/ \E w \in Workers : WkAdPrimaryEnd(w)
    \/ \E w \in Workers : WkAdFallbackEnd(w)
    \/ \E w \in Workers : WkProcess(w)
    \/ \E w \in Workers : ProcPush(w)
    \/ \E w \in Workers : ProcRecFail(w)

SpecCancel == InitCancel /\ [][NextCancel]_vars

(* One worker, under every retry budget, draining up to MaxSeqPayloads valid payloads
   of the two brands. *)
InitFetch ==
    /\ WorkersInit([heartbeat_interval_sec : {1},
                    max_retries : 0 .. MaxRetries,
                    redis_queue_prefix : {<<"q">>}], {"w1"},
                   {"{brand:acme,chunkId:c1,createdAt:t,mentions:[]}"}, MaxSeqPayloads)
    /\ LlmOff
    /\ SpikeOff
    /\ AdapterOff
    /\ FormatOff
    /\ ConsumerOff
    /\ ProcessorOff

(* the scan of worker w completes without a store error *)
ScanOk(w) ==
    /\ ProcScan(w)
    /\ ppc'[w] = "blpop" =>
          cur'[w].keys = ExistingKeys(lists, settings.redis_queue_prefix, BrandOrder, 1)
    /\ ppc'[w] = "sleep" =>
          ExistingKeys(lists, settings.redis_queue_prefix, BrandOrder, 1) = <<>>

(* the block-pop of worker w completes without a store error *)
BlpopOk(w) == ProcBlpop(w) /\ ppc'[w] # "sleep"

(* the event loop resumes a task whose await is done, and the store, tried again and
   again, answers in the end *)
FairFetch ==
    \A w \in {"w1"} :
        /\ WF_vars(ProcSleep(w))
        /\ SF_vars(ScanOk(w))
        /\ SF_vars(BlpopOk(w))
        /\ WF_vars(ProcProcess(w))
        /\ WF_vars(ProcPush(w))
        /\ WF_vars(ProcRecFail(w))
        /\ WF_vars(TaskCancelled(w, "processing"))

SpecFetch == InitFetch /\ [][Next]_vars /\ FairFetch

(* One worker's lifecycle and heartbeat loop under the clock; no queue has work. *)
InitHeartbeat ==
    /\ WorkersInit([heartbeat_interval_sec : 1 .. 2,
                    max_retries : {0},
                    redis_queue_prefix : {<<"q">>}], {"w1"}, {}, 0)
    /\ LlmOff
    /\ SpikeOff
    /\ AdapterOff
    /\ FormatOff
    /\ ConsumerOff
    /\ ProcessorOff

NextHeartbeat ==
    \/ \E w \in Workers : Start(w)
    \/ \E w \in Workers : StopBegin(w)
    \/ \E w \in Workers : StopEnd(w)
    \/ \E w \in Workers, t \in TaskNames : TaskCancelled(w, t)
    \/ \E w \in Workers : HbSetTimed(w)
    \/ \E w \in Workers : HbWakeTimed(w)
    \/ \E w \in Workers : HbTick(w)

SpecHeartbeat == InitHeartbeat /\ [][NextHeartbeat]_vars

(***************************************************************************)
(* The formatting of a ChunkResult on its own: every input of the bounded  *)
(* set is given once to _format_for_orchestrator.                          *)
(***************************************************************************)
MaxFormatClusters == 2

(* the examples of a cluster: none, or the cleaned text of its first mention, a
   sentence or a text that is itself a sentiment JSON object *)
FormatExamples == {<<>>, << <<"a">> >>, << <<"{positive,negative}">> >>}

FormatCluster(id, summary, examples) ==
    [cluster_id |-> id, count |-> 1, examples |-> examples, summary |-> summary,
     spike |-> FALSE, sentiment |-> [key \in SentimentKeys |-> 33]]

FormatChunkResult(clusters) ==
    [chunk_id |-> "c1", brand |-> "acme", clusters |-> clusters, metrics |-> NoMetrics]

(* the ChunkResults formatted: up to MaxFormatClusters clusters of every summary and
   example, and the long ones, of up to TopicsMax + 1 clusters, whose summaries are
   all distinct or all the same *)
FormatInputs ==
    {FormatChunkResult([i \in 1 .. n |-> FormatCluster(i - 1, ss[i], ee[i])]) :
        <<n, ss, ee>> \in UNION {{n} \X [1 .. n -> Summaries] \X [1 .. n -> FormatExamples] :
                                     n \in 0 .. MaxFormatClusters}}
    \cup {FormatChunkResult([i \in 1 .. n |->
                FormatCluster(i - 1, IF same THEN <<"hi">> ELSE <<ToString(i)>>, << <<"a">> >>)]) :
            <<n, same>> \in (MaxFormatClusters + 1 .. TopicsMax + 1) \X BOOLEAN}

InitFormat ==
    /\ WorkersOff
    /\ LlmOff
    /\ SpikeOff
    /\ AdapterOff
    /\ ProcessorOff
    /\ fresult \in FormatInputs
    /\ fpayload = None
    /\ ConsumerOff

(* push_result, line 29: the payload of the result *)
FormatResult ==
    /\ fpayload = None
    /\ fpayload' = format_for_orchestrator(fresult)
    /\ UNCHANGED <<workerVars, llmVars, spikeVars, adapterVars, processorVars, clockVars,
                   consumerVars, fresult>>

NextFormat == FormatResult

SpecFormat == InitFormat /\ [][NextFormat]_vars

(***************************************************************************)
(* The waiting state of the queue consumer over a sequence of fetch()      *)
(* calls, on a clock of whole seconds.                                     *)
(***************************************************************************)
MaxNow == 7
MaxFetchSec == 2
MaxLogInterval == 3

update_waiting_restart(q) ==
    LET logs == q.now - q.last_wait_log >= q.interval
    IN  [q EXCEPT !.waiting_since = At(q.now), !.gauge = 0,
                  !.last_wait_log = IF logs THEN q.now ELSE @,
                  !.logged_at = IF logs THEN At(q.now) ELSE @]

(* _update_waiting, lines 63-77 *)
update_waiting(q) ==
    LET since == IF q.waiting_since = NoTime THEN q.now ELSE q.waiting_since[1]
        logs == q.now - q.last_wait_log >= q.interval
    IN  [q EXCEPT !.waiting_since = At(since), !.gauge = q.now - since,
                  !.last_wait_log = IF logs THEN q.now ELSE @,
                  !.logged_at = IF logs THEN At(q.now) ELSE @]

(* _clear_waiting, lines 79-81 *)
clear_waiting(q) == [q EXCEPT !.waiting_since = NoTime, !.gauge = 0]

(* the clock after d more seconds *)
later(q, d) == [q EXCEPT !.now = q.now + d]

(* what every fetch() leaves alone *)
notConsumer ==
    <<workerVars, llmVars, spikeVars, adapterVars, processorVars, clockVars, formatVars>>

(* fetch, lines 29-33: no brand queue exists; the sleep of blpop_timeout_sec *)
FetchNoQueues(d) ==
    /\ qc.now + d <= MaxNow
    /\ qc' = [update_waiting(later(qc, d)) EXCEPT !.outcome = "no_queues"]
    /\ UNCHANGED notConsumer

(* fetch, lines 35-44: the pop timed out *)
FetchTimedOut(d) ==
    /\ qc.now + d <= MaxNow
    /\ qc' = [update_waiting(later(qc, d)) EXCEPT !.outcome = "timed_out"]
    /\ UNCHANGED notConsumer

(* fetch, lines 35-37 and 46-61: the pop returned an item *)
FetchItem(d) ==
    /\ qc.now + d <= MaxNow
    /\ qc' = [clear_waiting(later(qc, d)) EXCEPT !.outcome = "item"]
    /\ UNCHANGED notConsumer

(* fetch, lines 29 and 36: the scan or the pop raised *)
FetchRaised(d) ==
    /\ qc.now + d <= MaxNow
    /\ qc' = [later(qc, d) EXCEPT !.outcome = "raised"]
    /\ UNCHANGED notConsumer

(* the time the worker spends between two fetch() calls *)
BetweenFetches ==
    /\ qc.now + 1 <= MaxNow
    /\ qc' = later(qc, 1)
    /\ UNCHANGED notConsumer

InitWaiting ==
    /\ WorkersOff
    /\ LlmOff
    /\ SpikeOff
    /\ AdapterOff
    /\ ProcessorOff
    /\ FormatOff
    /\ qc \in {NewConsumer(now, i) : now \in 0 .. 1, i \in 1 .. MaxLogInterval}

NextWaiting ==
    \/ \E d \in 1 .. MaxFetchSec : FetchNoQueues(d)
    \/ \E d \in 1 .. MaxFetchSec : FetchTimedOut(d)
    \/ \E d \in 0 .. MaxFetchSec : FetchItem(d)
    \/ \E d \in 0 .. MaxFetchSec : FetchRaised(d)
    \/ BetweenFetches

SpecWaiting == InitWaiting /\ [][NextWaiting]_vars

NextProc ==
    \/ PcStart
    \/ PcEmbed
    \/ PcCluster
    \/ PcSummarize
    \/ PcSentiment
    \/ PcSpike
    \/ PcPush
    \/ PcRecFail

SpecProc == InitProc /\ [][NextProc]_vars

(***************************************************************************)
(* Properties.                                                             *)
(***************************************************************************)
ItemsOf(key, i) == {j \in 1 .. Len(lists[key]) : lists[key][j].payload.id = i}

(* the result items and the failure items written for payload i, by queue and position *)
ResultItems(i) == UNION {{<<b, j>> : j \in ItemsOf(ResultKey(b), i)} : b \in BrandLabels}
FailureItems(i) == UNION {{<<b, j>> : j \in ItemsOf(FailedKey(b), i)} : b \in BrandLabels}
NRes(i) == Cardinality(ResultItems(i))
NFail(i) == Cardinality(FailureItems(i))

(* C1: for every payload whose handle_payload ran to completion, a failed handling
   (JSON decode, validation, processor or storage exception) left exactly one item on
   the failure queue and none on the result queue, and a successful one left exactly
   one item on the result queue and none on the failure queue. *)
C1_OneOutputPerPayload ==
    \A i \in PayloadIds :
        hist[i].exit = "returned" =>
            IF hist[i].failedAt # "none"
            THEN NFail(i) = 1 /\ NRes(i) = 0
            ELSE NRes(i) = 1 /\ NFail(i) = 0

C1_Witness ==
    \E i \in PayloadIds :
        /\ hist[i].exit = "returned"
        /\ hist[i].failedAt = "processing"
        /\ NFail(i) = 1

(* C2: the processing loop never ends because of a per-chunk error: no exception
   leaves handle_payload (it ends only by success, dead-letter or cancellation), also
   when writing the failure record raises. *)
C2_LoopSurvivesChunkErrors ==
    /\ \A w \in Workers : ppc[w] # "ended_on_error"
    /\ \A i \in PayloadIds : hist[i].exit # "raised"

(* C4: within one worker one chunk is in flight at a time and chunks are handled in
   pop order: handling ends in the order of the pops, at most one popped chunk is
   unfinished, and whenever a fetch is under way every chunk popped before has its
   result or failure record on a queue. *)
C4_OneChunkInFlight ==
    \A w \in Workers :
        /\ Len(finished[w]) <= Len(popped[w])
        /\ Len(popped[w]) - Len(finished[w]) <= 1
        /\ finished[w] = SubSeq(popped[w], 1, Len(finished[w]))
        /\ (Len(popped[w]) > Len(finished[w])) <=> (cur[w].item # None)
        /\ ppc[w] \in {"scan", "sleep", "blpop"} =>
              \A j \in 1 .. Len(popped[w]) : NRes(popped[w][j]) + NFail(popped[w][j]) >= 1

C4_Witness ==
    /\ Len(finished["w1"]) = 2
    /\ ppc["w1"] = "scan"
    /\ \A i \in {1, 2} : NRes(i) + NFail(i) = 1

PopsOf(i) == UNION {{<<w, j>> : j \in {n \in 1 .. Len(popped[w]) : popped[w][n] = i}}
                      : w \in Workers}

(* C5: with several workers block-popping the same brand queues, each enqueued payload
   is returned by fetch() to at most one worker (and at most once). *)
C5_PoppedByOneWorker ==
    \A i \in PayloadIds : Cardinality(PopsOf(i)) <= 1

C5_Witness ==
    /\ popped["w1"] = <<1>>
    /\ ppc["w2"] = "blpop"
    /\ cur["w2"].keys # <<>>

(* C6: at-least-once delivery: a payload popped from an input queue whose handling has
   ended (returned, raised or cancelled) has at least one item on the result queue or
   on the failure queue. *)
C6_PoppedPayloadHasOutput ==
    \A i \in PayloadIds :
        hist[i].exit # "none" => NRes(i) + NFail(i) >= 1

(* C8: every heartbeat write stores "alive" with TTL max(2*interval, interval+5), which
   is at least interval + 5 and strictly greater than the refresh interval. *)
C8_HeartbeatTtl ==
    \A w \in Workers :
        hbkey[w] # None =>
            LET i == settings.heartbeat_interval_sec IN
            /\ i >= 1
            /\ hbkey[w].value = "alive"
            /\ hbkey[w].ex = (IF 2 * i >= i + 5 THEN 2 * i ELSE i + 5)
            /\ hbkey[w].ex >= i + 5
            /\ hbkey[w].ex > i

C8_Witness ==
    /\ hbkey["w1"] # None
    /\ settings.heartbeat_interval_sec = 6
    /\ hbkey["w1"].ex = 12

StoppedState(w) ==
    /\ stop_event[w]
    /\ tasks[w] = {}
    /\ ~redis_open[w]
    /\ cancel_req[w] = {}
    /\ TaskEnded(hbpc[w])
    /\ TaskEnded(ppc[w])

(* C9: when stop() has returned, the stop signal is set, both background tasks have
   been cancelled and have finished, and the store connection is closed; a second
   stop() after the first goes through without changing that stopped state. *)
C9_StopIdempotent ==
    /\ [](\A w \in Workers : svc[w] = "stopped" => StoppedState(w))
    /\ [][\A w \in Workers :
            (svc[w] \in {"stopped", "stopping"} /\ tasks[w] = {}) =>
                /\ svc'[w] \in {"stopped", "stopping"}
                /\ StoppedState(w)'
                /\ hbpc'[w] = hbpc[w]
                /\ ppc'[w] = ppc[w]
                /\ lists' = lists]_vars

C9_Witness ==
    /\ svc["w1"] = "stopping"
    /\ tasks["w1"] = {}
    /\ ~redis_open["w1"]
    /\ hbpc["w1"] = "cancelled"
    /\ ppc["w1"] = "cancelled"

JsonFailureRecord(w, i) ==
    [worker_id |-> w, brand |-> extract_brand_from_queue(hist[i].queue),
     chunk_id |-> "unknown", reason |-> "Invalid JSON",
     payload |-> CHOOSE it \in {[id |-> i, text |-> t] : t \in PayloadTexts} :
                    ~safe_json_loads(it.text).ok]

(* C10: for every payload that is not valid JSON and whose handling has ended without
   cancellation, exactly one FailureRecord {worker_id, brand hint of the source queue,
   chunk_id "unknown", reason "Invalid JSON", raw payload} is on <failed>:<brand hint>,
   the failure counter {brand hint, json_decode} is 1, no result item exists and the
   processor was never invoked. *)
C10_InvalidJsonDeadLettered ==
    \A w \in Workers : \A n \in 1 .. Len(finished[w]) :
        LET i == finished[w][n]
            hint == extract_brand_from_queue(hist[i].queue)
        IN  (hist[i].failedAt = "json_decode" /\ hist[i].exit \in {"returned", "raised"}) =>
                /\ FailureItems(i) = {<<hint, 1>>}
                /\ lists[FailedKey(hint)][1] = JsonFailureRecord(w, i)
                /\ chunks_failed[w][<<hint, "json_decode">>] = 1
                /\ NRes(i) = 0
                /\ procs[i] = 0

(* C3: at any instant at most llm_max_concurrency executor threads are inside the
   blocking chain.invoke, calls whose caller timed out included. *)
C3_InFlightWithinLimit ==
    InFlight <= llm_settings.llm_max_concurrency

(* C7: every spike-history list has at most 100 entries; after an append took effect
   its value is at the head of the list and the key's TTL is spike_history_ttl_sec
   less the time passed since, for appenders of one or of several processes. *)
C7_SpikeHistoryBounded ==
    \A k \in SpikeKeys :
        /\ Len(spike_list[k]) <= 100
        /\ spike_last[k] # None =>
              /\ spike_list[k] # <<>>
              /\ Head(spike_list[k]) = spike_last[k].value
              /\ spike_ttl[k] = spike_ttl_sec - spike_last[k].age
              /\ spike_ttl[k] > 0

C7_Witness ==
    \E k \in SpikeKeys :
        /\ Len(spike_list[k]) = 100
        /\ spike_list[k][1] = 2
        /\ spike_list[k][2] = 2
        /\ spike_list[k][3] = 1
        /\ spike_ttl[k] = spike_ttl_sec
        /\ n_appends = 3

(* the chunk_id a validation failure record is to carry: the raw object's chunkId if
   present, "unknown" otherwise *)
RawChunkId(text) ==
    LET raw == safe_json_loads(text)
    IN  IF raw.isDict /\ raw.chunkId.t # "missing" THEN raw.chunkId.v ELSE "unknown"

(* C11: for every payload that decodes as JSON but fails Chunk validation, whatever the
   type of its chunkId, handle_payload returns normally having appended exactly one
   failure record with reason "Validation failed" and chunk_id the raw object's chunkId
   if present and "unknown" otherwise, the counter {validation} is 1 and the processor
   was not invoked. *)
C11_ValidationFailureDeadLettered ==
    \A w \in Workers : \A n \in 1 .. Len(finished[w]) :
        LET i == finished[w][n]
            hint == extract_brand_from_queue(hist[i].queue)
        IN  (hist[i].failedAt = "validation" /\ hist[i].exit \in {"returned", "raised"}) =>
                /\ hist[i].exit = "returned"
                /\ FailureItems(i) = {<<hint, 1>>}
                /\ LET rec == lists[FailedKey(hint)][1] IN
                   /\ rec.reason = "Validation failed"
                   /\ rec.worker_id = w
                   /\ rec.chunk_id = RawChunkId(rec.payload.text)
                /\ chunks_failed[w][<<hint, "validation">>] = 1
                /\ NRes(i) = 0
                /\ procs[i] = 0

(* C12: the brand hint taken from a queue key <prefix>:<brand>:chunks is <brand>, the
   segment before "chunks", also for a prefix without a colon (q:acme:chunks -> acme). *)
C12_BrandHintIsBrandSegment ==
    \A i \in PayloadIds :
        hist[i].queue # <<>> =>
            extract_brand_from_queue(hist[i].queue) = hist[i].queue[Len(hist[i].queue) - 1]

Failed(outcome) == outcome \in {"raised", "timeout"}

(* C13: for every summarize or sentiment call that has ended: the primary was invoked
   first; the fallback was invoked, once and under the same timeout, exactly when the
   primary raised or timed out (and a fallback is configured); and the call raised
   exactly when the primary failed and the fallback was absent or failed too. *)
C13_FallbackPolicy ==
    ad.pc = "ended" =>
        /\ Len(ad.calls) \in {1, 2}
        /\ ad.calls[1].who = "primary"
        /\ (Len(ad.calls) = 2) <=> (Failed(ad.primary) /\ adapter.fallback # "none")
        /\ Len(ad.calls) = 2 =>
              ad.calls[2].who = "fallback" /\ ad.calls[2].timeout = ad.calls[1].timeout
        /\ (ad.exit = "raised") <=>
              (Failed(ad.primary) /\ (adapter.fallback = "none" \/ Failed(ad.fallback)))

NonObjectText(r) ==
    /\ r.t = "str"
    /\ ~json_loads(r.v).ok \/ json_loads(r.v).kind # "object"

(* C14: whenever the LLM response of a sentiment call is a string that fails to
   JSON-parse or parses to a non-object, sentiment() returns the default
   (0.33, 0.33, 0.34) and does not raise. *)
C14_SentimentDefaultOnBadResponse ==
    (ad.pc = "ended" /\ ad.op = "sentiment" /\ ad.invoke = "returned"
        /\ NonObjectText(ad.response)) =>
        /\ ad.exit = "returned"
        /\ ad.value = [k \in SentimentKeys |-> IF k = "neutral" THEN 34 ELSE 33]

Sum3(s) == s["positive"] + s["negative"] + s["neutral"]

FromJsonObject(r) == r.t = "str" /\ json_loads(r.v).ok /\ json_loads(r.v).kind = "object"

(* C15: in every ClusterResult the processor produces, each of sentiment.positive,
   negative and neutral lies in [0, 1], and when the sentiment was parsed from a valid
   JSON object the three sum to 1 (numbers in hundredths). *)
C15_SentimentInRange ==
    \A i \in 1 .. Len(pr.clusters) :
        LET sent == pr.clusters[i].sentiment IN
        /\ \A k \in SentimentKeys : 0 <= sent[k] /\ sent[k] <= 100
        /\ (\A r \in penv.responses : FromJsonObject(r)) => Sum3(sent) = 100

StageTimes ==
    {"preprocessing_time_ms", "embedding_time_ms", "clustering_time_ms", "llm_time_ms",
     "spike_detection_time_ms"}

(* C16: from the return of process_chunk to the end of handle_payload, also after the
   push time has been added to io_time_ms, total_task_time_ms >= io_time_ms and
   total_task_time_ms >= every other stage time. *)
C16_TotalDominates ==
    pr.result # None =>
        LET m == pr.result.metrics IN
        /\ m.total_task_time_ms >= m.io_time_ms
        /\ \A f \in StageTimes : m.total_task_time_ms >= m[f]

(* C17: a ChunkResult is not changed after it has been serialized for the result
   queue, and the io time in the published result is the fetch time plus the push
   time. *)
C17_PublishedResultFinal ==
    (pr.pc = "done" /\ presults # <<>>) =>
        /\ presults[1].meta.metrics = pr.result.metrics
        /\ presults[1].meta.metrics.io_time_ms = penv.fetch_time_ms + pr.push_time_ms

(* C18: for every grouping the clusterer returned, the ClusterResult has count = the
   number of mentions of the grouping, count >= len(examples), len(examples) <=
   preprocessing_examples, and the examples are the texts of the grouping's first
   min(count, preprocessing_examples) mentions, in the grouping's order. *)
C18_CountAndExamples ==
    \A i \in 1 .. Len(pr.clusters) :
        LET c == pr.clusters[i]
            g == pr.groupings[i]
        IN  /\ c.cluster_id = g.cluster_id
            /\ c.count = Len(g.indices)
            /\ c.count >= Len(c.examples)
            /\ Len(c.examples) <= psettings.preprocessing_examples
            /\ Len(c.examples) = (IF c.count <= psettings.preprocessing_examples
                                  THEN c.count ELSE psettings.preprocessing_examples)
            /\ \A j \in 1 .. Len(c.examples) :
                  c.examples[j] = pr.mentions[g.indices[j] + 1].text

C18_Witness ==
    /\ Len(pr.clusters) = 1
    /\ pr.groupings[1].indices = <<2, 0, 1>>
    /\ pr.clusters[1].count = 3
    /\ Len(pr.clusters[1].examples) = 2
    /\ psettings.preprocessing_examples = 2

(* C19: the list returned by preprocess has no mention with empty cleaned text and no
   two mentions with the same cleaned text; for each distinct non-empty cleaned text
   of the input it keeps the first mention that produced it, and it is ordered by
   first occurrence in the input. *)
C19_PreprocessDedup ==
    pr.pc # "idle" =>
        LET inp == pchunk.mentions
            out == pr.mentions
        IN  /\ \A j \in 1 .. Len(out) : out[j].text # <<>>
            /\ \A j, k \in 1 .. Len(out) : j # k => out[j].text # out[k].text
            /\ \A j \in 1 .. Len(out) :
                  /\ out[j].id \in 1 .. Len(inp)
                  /\ clean_text(inp[out[j].id].text) = out[j].text
                  /\ \A i \in 1 .. out[j].id - 1 : clean_text(inp[i].text) # out[j].text
            /\ \A i \in 1 .. Len(inp) :
                  clean_text(inp[i].text) # <<>> =>
                      \E j \in 1 .. Len(out) : out[j].text = clean_text(inp[i].text)
            /\ \A j, k \in 1 .. Len(out) : j < k => out[j].id < out[k].id

C19_Witness ==
    /\ pr.pc = "embed"
    /\ pchunk.mentions = <<Mention(1, <<"U">>), Mention(2, <<"A", " ", "U">>),
                           Mention(3, <<"a">>)>>
    /\ pr.mentions = <<Mention(2, <<"a">>)>>

NoSurvivor ==
    /\ pr.pc # "idle"
    /\ \A i \in 1 .. Len(pchunk.mentions) : clean_text(pchunk.mentions[i].text) = <<>>

EmptyResult(r) ==
    /\ r.clusters = <<>>
    /\ r.topics = <<>>
    /\ r.summary = <<>>
    /\ r.spikeDetected = FALSE
    /\ r.meta.mentionCount = 0

(* C20 as stated: when no mention survives preprocessing, neither embedding,
   clustering, the LLM nor spike detection is invoked, and when handling has ended
   exactly one result with clusters=[], topics=[], summary="", spikeDetected=false and
   meta.mentionCount=0 is on the result queue and nothing is on the failure queue. *)
C20_EmptyChunkAlwaysSucceeds ==
    NoSurvivor =>
        /\ pr.invoked = {}
        /\ pr.pc = "done" =>
              /\ Len(presults) = 1
              /\ EmptyResult(presults[1])
              /\ pfailures = <<>>

(* C20, amended: when no mention survives preprocessing, neither embedding,
   clustering, the LLM nor spike detection is invoked and process_chunk returns a
   result that serializes to clusters=[], topics=[], summary="", spikeDetected=false,
   meta.mentionCount=0; when the store accepts the push, exactly that one result is on
   the result queue and nothing is on the failure queue; when the push raises, no
   result is pushed and the chunk is dead-lettered as a processing failure. *)
C20_EmptyChunkShortCircuits ==
    NoSurvivor =>
        /\ pr.invoked = {}
        /\ pr.result # None /\ pr.result.clusters = <<>>
        /\ EmptyResult(pr.serialized)
        /\ (pr.pc = "done" /\ pr.failure = None) =>
              presults = <<pr.serialized>> /\ pfailures = <<>>
        /\ pr.failure # None =>
              presults = <<>> /\ (pr.exit = "returned" => pfailures = <<pr.failure>>)

C20_Witness ==
    /\ pchunk.mentions = <<Mention(1, <<"U">>)>>
    /\ pr.pc = "done"
    /\ Len(presults) = 1
    /\ pfailures = <<>>

HoldsPermit(c) == rc[c] \in {"calling", "delay"}

(* C24: with an API key configured, a call of invoke_general, invoke_prompt_text or
   invoke_roadmap reaches _run_chain: when the helper's first step is over the caller
   holds a permit with the chat client invoked, or waits for a permit. *)
C24_InvokeReachesRunChain ==
    [][\A c \in Callers, family \in Families :
          (InvokeCall(c, family) /\ llm_settings.gemini_api_key) =>
              rc'[c] \in {"calling", "waiting"}]_vars

(* C25: in _run_chain a call whose client returned, with min_delay_sec > 0, keeps its
   permit while it sleeps min_delay_sec and releases it when the sleep ends; a call
   that timed out or whose client raised releases its permit at once, without the
   sleep; a sleeping caller always holds a permit. *)
C25_PermitHeldThroughMinDelay ==
    [][\A c \in Callers :
          /\ (RcResume(c) /\ rc_thread[c] = "returned" /\ executor.min_delay > 0) =>
                rc'[c] = "delay" /\ executor'.permits = executor.permits
          /\ (RcResume(c) /\ rc_thread[c] = "returned" /\ executor.min_delay = 0) =>
                rc'[c] = "idle" /\ executor'.permits = executor.permits + 1
          /\ (RcResume(c) /\ rc_thread[c] = "raised") =>
                rc'[c] = "idle" /\ executor'.permits = executor.permits + 1
          /\ RcTimeout(c) =>
                rc'[c] = "idle" /\ executor'.permits = executor.permits + 1
          /\ (rc[c] = "delay" /\ rc'[c] # "delay") =>
                rc'[c] = "idle" /\ executor'.permits = executor.permits + 1
          /\ rc'[c] = "delay" =>
                /\ executor'.min_delay > 0
                /\ executor'.permits <= llm_settings.llm_max_concurrency - 1]_vars

C25_Witness ==
    \E c, d \in Callers :
        /\ rc[c] = "delay"
        /\ rc[d] = "waiting"
        /\ executor.permits = 0
        /\ executor.min_delay = 2

(* C26: the executor's clients and semaphore are created by the first use only (never
   before it, never again after it); the permits free plus the permits held always
   make llm_max_concurrency, so no permit is lost by a later _ensure_clients; with no
   API key every call raises and the shared handles stay unset. *)
C26_EnsureClientsIdempotent ==
    /\ executor.created <= 1
    /\ executor.ready <=> executor.created = 1
    /\ (\A c \in Callers : rc_calls[c] = 0) => executor = NoClients
    /\ ((\E c \in Callers : rc_calls[c] > 0) /\ llm_settings.gemini_api_key) =>
          executor.ready
    /\ executor.ready =>
          executor.permits + Cardinality({c \in Callers : HoldsPermit(c)})
              = llm_settings.llm_max_concurrency
    /\ ~llm_settings.gemini_api_key =>
          executor = NoClients /\ \A c \in Callers : rc[c] = "idle"

C26_Witness ==
    /\ executor.created = 1
    /\ \E c, d \in Callers : c # d /\ rc_calls[c] = 2 /\ rc_calls[d] >= 1 /\ HoldsPermit(d)
    /\ executor.permits < llm_settings.llm_max_concurrency

(* C27: a summarize / sentiment call that returns a value has recorded exactly one
   latency observation, under the brand label in force and its operation, whether the
   primary or the fallback answered; a failed primary has logged exactly one warning
   (none otherwise); a call that raises has recorded no latency observation. *)
C27_OneLatencyObservation ==
    ad.pc = "ended" =>
        /\ ad.exit = "returned" => ad.observed = <<Observation(ad.brand, ad.op)>>
        /\ ad.warnings = (IF Failed(ad.primary) THEN 1 ELSE 0)
        /\ ad.exit = "raised" => ad.observed = <<>>

(* C28: the adapter's (brand, chunk_id) labels are those given to the innermost open
   context() scope, and those of a new adapter when no scope is open: leaving a scope,
   by the end of its body or by an exception, at any nesting depth, brings back the
   labels in force when it was entered. *)
C28_LabelsRestored ==
    /\ Len(adapter.saved) = Len(adapter.scopes)
    /\ adapter.labels = (IF adapter.scopes = <<>> THEN NoLabels ELSE Head(adapter.scopes))
    /\ \A i \in 1 .. Len(adapter.saved) :
          adapter.saved[i] = (IF i = Len(adapter.saved) THEN NoLabels
                              ELSE adapter.scopes[i + 1])

C28_Witness ==
    /\ adapter.left = "exception"
    /\ ad.exit = "raised"
    /\ Len(adapter.saved) = 1
    /\ adapter.labels = [brand |-> "acme", chunk_id |-> "c1"]

IsPrefix(a, b) == Len(a) <= Len(b) /\ a = SubSeq(b, 1, Len(a))

(* the stages of a chunk with n groupings, in the order of process_chunk *)
Pipeline(n) ==
    [i \in 1 .. 3 + 3 * n |->
        IF i <= 3 THEN [stage |-> <<"preprocess", "embed", "cluster">>[i], k |-> 0]
        ELSE [stage |-> <<"summarize", "sentiment", "spike">>[((i - 4) % 3) + 1],
              k |-> ((i - 4) \div 3) + 1]]

(* C23: the stages started for a chunk are, in order, a prefix of preprocess, embed,
   cluster and then summarize, sentiment, spike detect of each grouping in clusterer
   order; the stage in flight is the last one started, so no stage starts before the
   one before it has finished; and once a stage has failed no further stage starts. *)
C23_StagesInOrder ==
    /\ [](/\ IsPrefix(pr.trace, Pipeline(Len(pr.groupings)))
          /\ pr.pc \in {"embed", "cluster", "summarize", "sentiment", "spike"}
                => /\ pr.trace # <<>>
                   /\ pr.trace[Len(pr.trace)].stage = pr.pc
                   /\ pr.trace[Len(pr.trace)].k = pr.k)
    /\ [][pr.failure # None => pr'.trace = pr.trace]_vars

C23_Witness ==
    /\ pr.pc = "done"
    /\ Len(pr.groupings) = 2
    /\ pr.trace = Pipeline(2)
    /\ pr.failure = None

(* C21: every cluster's spike flag is the classification of the history that detect
   read, against the cluster's count: true exactly when that history has at least the
   minimum number of observations and the count exceeds 1 and the history's mean plus
   twice its standard deviation; the history read is the cluster's list as it was
   before the count was pushed (or empty on a store error); the result's
   spikeDetected is the disjunction of the flags; and ten 1s with a count of 10 are
   a spike. *)
C21_SpikeAgainstPriorHistory ==
    /\ [](/\ Len(pr.reads) = Len(pr.clusters)
          /\ \A i \in 1 .. Len(pr.clusters) :
                pr.clusters[i].spike = is_spike(pr.reads[i], pr.clusters[i].count)
          /\ pr.serialized # None =>
                pr.serialized.spikeDetected
                  = (\E i \in 1 .. Len(pr.clusters) : pr.clusters[i].spike)
          /\ is_spike(Ones(10), 10)
          /\ format_for_orchestrator(
                [chunk_id |-> "c1", brand |-> "acme", metrics |-> NoMetrics,
                 clusters |-> <<[cluster_id |-> 7, count |-> 10, examples |-> <<>>,
                                summary |-> <<"hi">>,
                                sentiment |-> [key \in SentimentKeys |-> 33],
                                spike |-> is_spike(Ones(10), 10)]>>]).spikeDetected)
    /\ [][Len(pr'.reads) > Len(pr.reads) =>
            LET id == pr.groupings[pr.k].cluster_id
                n == Len(pr.groupings[pr.k].indices) IN
            /\ pr'.reads[Len(pr'.reads)] \in {pspike[id], <<>>}
            /\ pspike'[id] \in {pspike[id], append_spike_history(pspike[id], n)}]_vars

C21_Witness ==
    /\ pr.pc = "done"
    /\ pr.serialized # None
    /\ pr.serialized.spikeDetected
    /\ \E i \in 1 .. Len(pr.clusters) :
         /\ pr.clusters[i].spike
         /\ pr.clusters[i].count > 1
         /\ pr.reads[i] = Ones(MinObservations)
         /\ pspike[pr.clusters[i].cluster_id]
              = <<pr.clusters[i].count>> \o Ones(MinObservations)

(* C22: whenever a pending cancellation of a task is delivered, at whatever await the
   task is suspended (the heartbeat write or wait, the scan, the sleep, the block-pop,
   process_chunk with or without an LLM call in flight, a push), the task ends
   cancelled; no list of the store changes, so no failure record and no result is
   written, and no failure is counted; an LLM call in flight ends cancelled with no
   further invocation, no warning and no latency observation; and a cancelled task
   takes no further step. *)
C22_CancellationPropagates ==
    [][\A w \in Workers, t \in TaskNames :
          /\ (t \in cancel_req[w] /\ t \notin cancel_req'[w]) =>
                /\ Pc(w, t)' = "cancelled"
                /\ lists' = lists
                /\ chunks_failed' = chunks_failed
                /\ t = "processing" => cur'[w] = NoCur
                /\ ad'.calls = ad.calls
                /\ ad'.warnings = ad.warnings
                /\ ad'.observed = ad.observed
                /\ (t = "processing" /\ InLlmCall(w)) => ad'.exit = "cancelled"
          /\ Pc(w, t) = "cancelled" => Pc(w, t)' = "cancelled"]_vars

C22_Witness ==
    /\ ppc["w1"] = "cancelled"
    /\ hbpc["w1"] = "cancelled"
    /\ ad.exit = "cancelled"
    /\ Len(ad.calls) = 2
    /\ hist[1].exit = "cancelled"
    /\ \A b \in Brands : lists[FailedKey(b)] = <<>>

LoopAlive(w) == hbpc[w] \in {"set", "wait"}

(* C29 as stated: while the loop runs, a write attempt has begun within the last
   max(heartbeat_interval, 1) seconds. *)
C29_AttemptEveryInterval ==
    \A w \in Workers :
        (svc[w] = "running" /\ LoopAlive(w)) => hbt[w].gap <= heartbeat_interval

(* C29, amended: while the loop runs, the time since the last write attempt began is
   the time that write took plus the time waited, and the wait lasts at most
   max(heartbeat_interval, 1) seconds; the next attempt begins exactly when the wait
   has lasted that long; a store error on a write leaves the loop waiting for the next
   attempt, and the loop never ends on an error; and once the stop signal is set no
   second passes before the loop has ended. *)
C29_HeartbeatCadence ==
    /\ [](\A w \in Workers :
            /\ hbpc[w] # "ended_on_error"
            /\ LoopAlive(w) =>
                  /\ hbt[w].waited <= heartbeat_interval
                  /\ hbt[w].gap = hbt[w].writing + hbt[w].waited)
    /\ [][\A w \in Workers :
            /\ (hbpc[w] = "wait" /\ hbpc'[w] = "set") =>
                  hbt[w].waited = heartbeat_interval
            /\ (hbpc[w] = "set" /\ hbt'[w].errors > hbt[w].errors) => hbpc'[w] = "wait"
            /\ HbTick(w) => ~stop_event[w]]_vars

C29_Witness ==
    /\ svc["w1"] = "running"
    /\ hbpc["w1"] = "set"
    /\ hbt["w1"].errors >= 1
    /\ hbt["w1"].beats = MaxBeats
    /\ hbt["w1"].writing = MaxWriteSec
    /\ hbt["w1"].gap = MaxWriteSec

FullScan == ExistingKeys(lists, settings.redis_queue_prefix, BrandOrder, 1)

(* the scan of worker w's fetch met a store error after it had gathered some keys *)
ScanFailed(w) == ppc[w] = "blpop" /\ Len(cur[w].keys) < Len(FullScan)

WorkQueued == FullScan # <<>>

LoopLive(w) == ppc[w] \in {"scan", "sleep", "blpop", "process", "push", "recfail"}

(* C30 as stated: a fetch whose scan met a store error returns none, so it pops
   nothing. *)
C30_ScanErrorFetchReturnsNone ==
    [][\A w \in Workers : ScanFailed(w) => popped'[w] = popped[w]]_vars

(* C30, amended: a store error of the block-pop changes no list and leads to the
   sleep, after which fetch returns none and the loop is at its top again; the scan
   returns a prefix of the sorted keys, and fetch sleeps and returns none when that is
   empty and block-pops on it otherwise; the loop ends on an error only out of
   handle_payload, never out of the scan, the sleep or a block-pop that returned
   nothing; and with a store that answers in the end, queued work is consumed unless
   the loop is stopped or handle_payload raised. *)
C30_StoreErrorsStayInFetch ==
    /\ [][\A w \in Workers :
            /\ (ppc[w] = "blpop" /\ ppc'[w] = "sleep") =>
                  lists' = lists /\ popped' = popped /\ cur' = cur
            /\ (ppc[w] = "sleep" /\ ppc'[w] # "sleep") =>
                  /\ ppc'[w] \in {"scan", "done", "cancelled"}
                  /\ cur'[w] = NoCur
                  /\ popped' = popped
            /\ (ppc[w] = "scan" /\ ppc'[w] # "scan") =>
                  /\ ppc'[w] \in {"blpop", "sleep", "cancelled"}
                  /\ ppc'[w] = "blpop" =>
                        cur'[w].keys # <<>> /\ IsPrefix(cur'[w].keys, FullScan)
            /\ (ppc'[w] = "ended_on_error" /\ ppc[w] # "ended_on_error") =>
                  /\ ppc[w] \in {"blpop", "process", "push", "recfail"}
                  /\ ppc[w] = "blpop" => popped'[w] # popped[w]]_vars
    /\ (LoopLive("w1") /\ WorkQueued) ~> (~WorkQueued \/ ~LoopLive("w1"))

C30_Witness ==
    /\ ppc["w1"] = "sleep"
    /\ cur["w1"].keys # <<>>
    /\ Len(cur["w1"].keys) < Len(FullScan)
    /\ svc["w1"] = "running"

(* C31: start() ends running exactly when the store answers a ping within the
   configured retries, and only then are the two tasks created; when every ping of the
   1 + max_retries attempts fails, start() has raised: the service has no task, neither
   loop has taken a step and no heartbeat key is written, then or later. *)
C31_TasksOnlyAfterProbe ==
    /\ [](\A w \in Workers :
            /\ svc[w] = "failed" =>
                  /\ tasks[w] = {}
                  /\ hbpc[w] = "idle" /\ ppc[w] = "idle"
                  /\ hbkey[w] = None
            /\ svc[w] = "new" => tasks[w] = {} /\ hbkey[w] = None)
    /\ [][\A w \in Workers : \A fails \in 0 .. MaxRetries + 2 :
            StartWith(w, fails) =>
                /\ (fails > settings.max_retries) <=> (svc'[w] = "failed")
                /\ (fails <= settings.max_retries) <=> (tasks'[w] = TaskNames)]_vars

C31_Witness ==
    /\ svc["w1"] = "failed"
    /\ settings.max_retries = MaxRetries
    /\ tasks["w1"] = {}

(* the brand a payload is filed under: the brand of its chunk when that is a non-empty
   string, the brand hint of the queue it was popped from otherwise *)
EffectiveBrand(item) ==
    LET raw == safe_json_loads(item.text)
        hint == extract_brand_from_queue(hist[item.id].queue)
    IN  IF raw.brand.v # "" THEN raw.brand.v ELSE hint

(* C32: every result in the store lies in the result list of its payload's effective
   brand (the chunk's brand, or the source queue's brand hint when that is empty);
   every processing failure lies in the failure list of that brand; every JSON-decode
   or validation failure lies in the failure list of the source queue's brand hint;
   and the record names the same brand. *)
C32_OutputsFiledUnderBrand ==
    \A b \in BrandLabels :
        /\ \A i \in 1 .. Len(lists[ResultKey(b)]) :
              LET item == lists[ResultKey(b)][i].payload IN
              /\ hist[item.id].failedAt = "none"
              /\ b = EffectiveBrand(item)
        /\ \A i \in 1 .. Len(lists[FailedKey(b)]) :
              LET f == lists[FailedKey(b)][i] IN
              /\ f.brand = b
              /\ hist[f.payload.id].failedAt \in Reasons
              /\ hist[f.payload.id].failedAt = "processing" =>
                    b = EffectiveBrand(f.payload)
              /\ hist[f.payload.id].failedAt \in {"json_decode", "validation"} =>
                    b = extract_brand_from_queue(hist[f.payload.id].queue)

C32_Witness ==
    /\ \E b \in BrandLabels : \E i \in 1 .. Len(lists[ResultKey(b)]) :
          /\ lists[ResultKey(b)][i].payload.text
                = "{brand:,chunkId:c2,createdAt:t,mentions:[]}"
          /\ b = extract_brand_from_queue(hist[lists[ResultKey(b)][i].payload.id].queue)
    /\ \A k \in Keys : k \notin {ResultKey(b) : b \in BrandLabels} => lists[k] = <<>>

(***************************************************************************)
(* The labels of the orchestrator payload.                                 *)
(***************************************************************************)
Formatted == fpayload # None

(* the label the rule gives a cluster: the trimmed summary unless it is empty or a
   sentiment JSON object, else the first example unless it is empty, else the
   literal "Cluster <cluster_id>" *)
LabelByRule(cluster) ==
    LET trimmed == strip(cluster.summary)
        first == IF cluster.examples = <<>> THEN <<>> ELSE strip(cluster.examples[1])
    IN  IF trimmed # <<>> /\ ~is_sentiment_blob(trimmed) THEN trimmed
        ELSE IF first # <<>> THEN first
        ELSE <<"Cluster", ToString(cluster.cluster_id)>>

LabelsFollowRule ==
    Formatted =>
        /\ Len(fpayload.clusters) = Len(fresult.clusters)
        /\ \A i \in 1 .. Len(fresult.clusters) :
              fpayload.clusters[i].label = LabelByRule(fresult.clusters[i])

(* C33 as stated: every label follows the rule, hence no label is empty and no label
   is a sentiment JSON object *)
C33_LabelNeverJsonBlob ==
    /\ LabelsFollowRule
    /\ Formatted =>
          \A i \in 1 .. Len(fpayload.clusters) :
              /\ fpayload.clusters[i].label # <<>>
              /\ ~is_sentiment_blob(fpayload.clusters[i].label)

(* C33: every label of the payload is the first non-empty of the trimmed summary
   (unless it is a sentiment JSON object), the first example and the literal
   "Cluster <cluster_id>"; no label is empty; a label is a sentiment JSON object only
   when it is the cluster's first example, taken because the summary was empty or
   such an object *)
C33_LabelFirstNonEmpty ==
    /\ LabelsFollowRule
    /\ Formatted =>
          \A i \in 1 .. Len(fpayload.clusters) :
              LET label == fpayload.clusters[i].label
                  cluster == fresult.clusters[i]
              IN  /\ label # <<>>
                  /\ is_sentiment_blob(label) =>
                        /\ cluster.examples # <<>>
                        /\ label = strip(cluster.examples[1])
                        /\ ~NonEmptyText(strip(cluster.summary))
                             \/ is_sentiment_blob(strip(cluster.summary))

(* a payload with the three kinds of label: the summary, the first example in place of
   a sentiment JSON object, the literal in place of a blank summary without examples *)
C33_Witness ==
    /\ Formatted
    /\ \E i, j \in 1 .. Len(fpayload.clusters) :
          /\ is_sentiment_blob(strip(fresult.clusters[i].summary))
          /\ fpayload.clusters[i].label = <<"a">>
          /\ fresult.clusters[j].summary = <<" ">>
          /\ fresult.clusters[j].examples = <<>>
          /\ fpayload.clusters[j].label = <<"Cluster", ToString(j - 1)>>

(***************************************************************************)
(* The topics of the orchestrator payload.                                 *)
(***************************************************************************)
(* the normalized summaries of the clusters, in cluster order, without a forced
   fallback label and without the empty ones *)
RECURSIVE NormalizedSummaries(_)
NormalizedSummaries(clusters) ==
    IF clusters = <<>> THEN <<>>
    ELSE LET c == clusters[Len(clusters)]
             trimmed == strip(c.summary)
             first == IF c.examples = <<>> THEN <<>> ELSE strip(c.examples[1])
             normalized == IF trimmed # <<>> /\ ~is_sentiment_blob(trimmed) THEN trimmed
                           ELSE first
         IN  NormalizedSummaries(SubSeq(clusters, 1, Len(clusters) - 1))
                \o (IF normalized # <<>> THEN <<normalized>> ELSE <<>>)

(* C34: the topics are the normalized summaries of the clusters in cluster order with
   no forced fallback label; no topic is empty, no topic occurs twice, and there are
   at most 10 topics *)
C34_TopicsDistinctCapped ==
    Formatted =>
        /\ IsPrefix(fpayload.topics, NormalizedSummaries(fresult.clusters))
        /\ \A i \in 1 .. Len(fpayload.topics) : fpayload.topics[i] # <<>>
        /\ Injective(fpayload.topics)
        /\ Len(fpayload.topics) <= TopicsMax

(***************************************************************************)
(* The consumer's waiting state.                                           *)
(***************************************************************************)
IdleFetch == \E d \in 0 .. MaxFetchSec + 1 : FetchNoQueues(d) \/ FetchTimedOut(d)

(* C35: the first idle fetch of an idle streak sets the waiting start and the later
   ones leave it unchanged, so the gauge never decreases during the streak; a
   successful fetch resets the waiting start to none and the gauge to 0; two
   emissions of the waiting log are at least metrics_wait_log_interval_sec apart *)
C35_WaitingState ==
    /\ [][IdleFetch =>
            /\ qc.waiting_since = NoTime => qc'.waiting_since = At(qc'.now)
            /\ qc.waiting_since # NoTime => qc'.waiting_since = qc.waiting_since
            /\ qc'.gauge = qc'.now - qc'.waiting_since[1]
            /\ qc'.gauge >= qc.gauge]_vars
    /\ [][(\E d \in 0 .. MaxFetchSec + 1 : FetchItem(d)) =>
            qc'.waiting_since = NoTime /\ qc'.gauge = 0]_vars
    /\ [][(qc'.logged_at # qc.logged_at /\ qc.logged_at # NoTime) =>
            qc'.logged_at[1] - qc.logged_at[1] >= qc.interval]_vars

(* an idle streak of two fetches after a successful one: the second left the waiting
   start where the first set it, the gauge has grown, the log was emitted twice *)
C35_Witness ==
    /\ qc.outcome = "timed_out"
    /\ qc.waiting_since # NoTime
    /\ qc.waiting_since[1] > 1
    /\ qc.gauge >= 2
    /\ qc.logged_at # NoTime
    /\ qc.logged_at[1] > qc.waiting_since[1]
    /\ qc.last_wait_log = qc.logged_at[1]

(***************************************************************************)
(* The permits of the executor's semaphore.                                *)
(***************************************************************************)
PermitsHeld == Cardinality({c \in Callers : HoldsPermit(c)})

(* the permits free before a step, counting a semaphore not yet created as full *)
PermitsFree ==
    IF executor.ready THEN executor.permits ELSE llm_settings.llm_max_concurrency

(* C36: once the semaphore exists the permits held plus the permits free make
   llm_max_concurrency; a caller that takes a permit takes one, and gives back one
   when it leaves _run_chain by return, timeout, exception or cancellation (in the
   call or in the min-delay sleep); a caller cancelled while it waits for a permit
   gives back none; with every caller out of _run_chain all permits are free again *)
C36_PermitsConserved ==
    /\ [](executor.ready =>
            /\ executor.permits \in 0 .. llm_settings.llm_max_concurrency
            /\ executor.permits + PermitsHeld = llm_settings.llm_max_concurrency
            /\ (\A c \in Callers : rc[c] = "idle") =>
                    executor.permits = llm_settings.llm_max_concurrency)
    /\ [][\A c \in Callers :
            /\ (~HoldsPermit(c) /\ HoldsPermit(c)') =>
                    executor'.permits = PermitsFree - 1
            /\ (HoldsPermit(c) /\ ~HoldsPermit(c)') =>
                    rc'[c] = "idle" /\ executor'.permits = executor.permits + 1
            /\ (RcCancelled(c) /\ HoldsPermit(c)) =>
                    rc'[c] = "idle" /\ executor'.permits = executor.permits + 1
            /\ (RcCancelled(c) /\ rc[c] = "waiting") =>
                    rc'[c] = "idle" /\ executor'.permits = executor.permits
            /\ (RcTimeout(c) \/ (RcResume(c) /\ rc_thread[c] = "raised")) =>
                    executor'.permits = executor.permits + 1]_vars

(* every caller has made all its calls and is out of _run_chain, calls that timed out
   or were cancelled have left their threads behind, and every permit is free *)
C36_Witness ==
    /\ executor.ready
    /\ \A c \in Callers : rc[c] = "idle" /\ rc_calls[c] >= 2
    /\ orphans >= 2
    /\ executor.permits = llm_settings.llm_max_concurrency

(***************************************************************************)
(* The spike history of a chunk whose processing failed.                   *)
(***************************************************************************)
ChunkFailed == pr.failure # None

(* the groupings whose spike detection was over when the chunk failed: all of them
   when the push failed, those before the failing one otherwise *)
GroupingsDone ==
    IF pr.result # None THEN Len(pr.groupings)
    ELSE IF pr.k > 0 THEN pr.k - 1 ELSE 0

(* C37: when the processing of a chunk fails, the spike-history appends made for the
   groupings already analysed (all of them when the push fails) are in the store, each
   count pushed onto the list its detection read, and no step of the failure path, up
   to and after the dead-lettering, changes the spike lists *)
C37_AppendsSurviveFailure ==
    /\ [][(pr'.failure # None) => pspike' = pspike]_vars
    /\ [](ChunkFailed =>
            /\ Len(pr.clusters) = GroupingsDone
            /\ Len(pr.reads) = GroupingsDone
            /\ penv.store_ok = {TRUE} =>
                  \A j \in 1 .. GroupingsDone :
                      pspike[pr.groupings[j].cluster_id]
                          = <<pr.clusters[j].count>> \o pr.reads[j])

(* a chunk dead-lettered after its second grouping failed: the count of the first
   grouping is on its cluster's list, ahead of the observations read *)
C37_Witness ==
    /\ pr.pc = "done"
    /\ Len(pfailures) = 1
    /\ presults = <<>>
    /\ pr.result = None
    /\ pr.k = 2
    /\ Len(pr.reads[1]) >= MinObservations
    /\ pspike[pr.groupings[1].cluster_id] = <<pr.clusters[1].count>> \o pr.reads[1]
    /\ pspike[pr.groupings[2].cluster_id] = pr.reads[1]

(***************************************************************************)
(* The heartbeat loop after the processing loop has ended on an exception. *)
(***************************************************************************)
ProcessingDied(w) == ppc[w] = "ended_on_error"

(* C38: the two loops are tasks of their own: the step that ends the processing loop
   on an exception leaves the heartbeat task where it was; from then on, until stop()
   is called, the heartbeat task is alive and its next step, the write of the key or
   the end of its wait, can be taken; the processing loop stays ended and pops no more
   chunks *)
C38_HeartbeatOutlivesProcessing ==
    /\ [](\A w \in Workers :
            (ProcessingDied(w) /\ svc[w] = "running") =>
                /\ "heartbeat" \in tasks[w]
                /\ ~stop_event[w]
                /\ LoopAlive(w)
                /\ hbpc[w] = "set" => ENABLED HbSet(w)
                /\ hbpc[w] = "wait" => ENABLED HbWake(w))
    /\ [][\A w \in Workers :
            /\ (ProcessingDied(w)' /\ ~ProcessingDied(w)) =>
                    hbpc'[w] = hbpc[w] /\ tasks'[w] = tasks[w] /\ hbkey'[w] = hbkey[w]
            /\ ProcessingDied(w) =>
                    ProcessingDied(w)' /\ popped'[w] = popped[w]
            /\ (ProcessingDied(w) /\ svc[w] = "running" /\ hbpc[w] = "wait"
                    /\ hbpc'[w] # "wait") => hbpc'[w] = "set" \/ svc'[w] # "running"]_vars

(* the processing loop has ended on an exception after popping a chunk, the service
   still runs, the key is written and the heartbeat loop is at its next write *)
C38_Witness ==
    \E w \in Workers :
        /\ ProcessingDied(w)
        /\ svc[w] = "running"
        /\ Len(popped[w]) >= 1
        /\ hbkey[w] # None
        /\ hbpc[w] = "set"

====
